---- MODULE Spec2Model ----
(***************************************************************************)
(* ai-conventional-commit: the title guardrail / normaliser                *)
(* (guardrails.ts, title-format.ts) and the generate / split / refine      *)
(* workflows (workflow/*.ts) over the git index, the commit log and the    *)
(* session file .git/.aicc-cache/last-session.json.                        *)
(*                                                                         *)
(* A title is a sequence of code points.  A code point is written as a     *)
(* one-character string; an emoji is written by its name ("SPARKLES").     *)
(***************************************************************************)
EXTENDS Integers, Sequences, FiniteSets, TLC

(***************************************************************************)
(* Character classes of the regular expressions.                           *)
(***************************************************************************)

\* U+FE0F, the variation selector that follows some emoji of EMOJI_MAP.
VS16 == "VS16"

\* Pictographs: \p{Emoji} and \p{So}.
Pictographs ==
  {"SPARKLES", "BUG", "BROOM", "MEMO", "RECYCLE", "CHECK", "ROBOT", "ZAP",
   "ART", "CRANE", "REWIND", "SHUFFLE", "LOCK", "LABEL", "WRENCH"}

Digits == {"0", "1", "2"}

LowerLetters ==
  {"a", "b", "c", "d", "e", "f", "g", "h", "i", "k", "l", "m", "n", "o", "p",
   "r", "s", "t", "u", "v", "x", "y"}

UpperLetters == {"A", "B", "F", "I", "X"}

\* [\p{Emoji}\p{So}\p{Sk}]: \p{Emoji} holds the digits, "#" and "*";
\* "^" is \p{Sk}.
IsEmojiSym(c) == c \in Pictographs \cup Digits \cup {"#", "*", "^"}

\* \p{P}
IsPunct(c) == c \in {":", "(", ")", ".", "!", "-", "_", "#", "*", ","}

\* [\p{Emoji}\p{So}\p{Sk}\p{P}]
IsEmojiSymPunct(c) == IsEmojiSym(c) \/ IsPunct(c)

\* \w
IsWord(c) == c \in LowerLetters \cup UpperLetters \cup Digits \cup {"_"}

\* \s (the white space String.prototype.trim removes is the same set)
IsSpace(c) == c \in {" ", "NL"}

\* . (anything but a line terminator)
IsDot(c) == c # "NL"

\* String.prototype.toLowerCase on one code point
LowerChar(c) ==
  CASE c = "A" -> "a"
    [] c = "B" -> "b"
    [] c = "F" -> "f"
    [] c = "I" -> "i"
    [] c = "X" -> "x"
    [] OTHER -> c

(***************************************************************************)
(* String helpers                                                          *)
(***************************************************************************)

\* the character classes the patterns repeat: \s, \w, [\p{Emoji}\p{So}\p{Sk}],
\* the same with \p{P} and \s, and the same with \s
InClass(c, class) ==
  CASE class = "space" -> IsSpace(c)
    [] class = "word" -> IsWord(c)
    [] class = "symbol" -> IsEmojiSym(c)
    [] class = "cluster" -> IsEmojiSymPunct(c) \/ IsSpace(c)
    [] class = "symbolOrSpace" -> IsEmojiSym(c) \/ IsSpace(c)

\* the length of the longest prefix of s made of characters of the class
PrefixLen(s, class) ==
  CHOOSE n \in 0..Len(s) :
    /\ \A i \in 1..n : InClass(s[i], class)
    /\ (n = Len(s) \/ ~InClass(s[n + 1], class))

\* the length of the longest suffix of s made of characters of the class
SuffixLen(s, class) ==
  CHOOSE n \in 0..Len(s) :
    /\ \A i \in (Len(s) - n + 1)..Len(s) : InClass(s[i], class)
    /\ (n = Len(s) \/ ~InClass(s[Len(s) - n], class))

Drop(s, n) == SubSeq(s, n + 1, Len(s))

TrimStart(s) == Drop(s, PrefixLen(s, "space"))

TrimEnd(s) == SubSeq(s, 1, Len(s) - SuffixLen(s, "space"))

Trim(s) == TrimEnd(TrimStart(s))

ToLowerCase(s) == [i \in 1..Len(s) |-> LowerChar(s[i])]

\* s.charAt(0).toLowerCase() + s.slice(1)
LowerFirst(s) == IF s = <<>> THEN s ELSE <<LowerChar(s[1])>> \o Tail(s)

\* s.replace(/\.$/, "")
StripTrailingPeriod(s) ==
  IF s # <<>> /\ s[Len(s)] = "." THEN SubSeq(s, 1, Len(s) - 1) ELSE s

\* s.replace(/^([\p{Emoji}\p{So}\p{Sk}\p{P}]+\s*)+/u, ""): the longest prefix
\* made of symbols, punctuation and white space that starts with a symbol or
\* a punctuation mark
StripLeadingClusters(s) ==
  IF s # <<>> /\ IsEmojiSymPunct(s[1])
  THEN Drop(s, PrefixLen(s, "cluster"))
  ELSE s

(***************************************************************************)
(* guardrails.ts                                                           *)
(***************************************************************************)

NoMatch == [ok |-> FALSE, type |-> <<>>, scope |-> <<>>, subject |-> <<>>]

\* The tail ":\s+(.*)$" of the title patterns, tried with the colon at
\* position p of t: \s+ is greedy and (.*) has to reach the end of the
\* input without crossing a line terminator.
TailMatches(t, p) ==
  /\ p + 1 <= Len(t)
  /\ t[p] = ":"
  /\ IsSpace(t[p + 1])
  /\ \A i \in (p + 1 + PrefixLen(Drop(t, p), "space"))..Len(t) : IsDot(t[i])

TailSubject(t, p) == Drop(t, p + PrefixLen(Drop(t, p), "space"))

\* the positions of a ")" that can close the scope group "(\(.+\))" opened
\* right after the k-character type
ScopeClosers(t, k) ==
  IF k + 1 <= Len(t) /\ t[k + 1] = "("
  THEN {j \in (k + 3)..Len(t) :
          /\ t[j] = ")"
          /\ \A i \in (k + 2)..(j - 1) : IsDot(t[i])
          /\ TailMatches(t, j + 1)}
  ELSE {}

Last(S) == CHOOSE j \in S : \A x \in S : x <= j

TypeMatchScoped(t, k, j) ==
  [ok |-> TRUE,
   type |-> SubSeq(t, 1, k),
   scope |-> SubSeq(t, k + 1, j),
   subject |-> TailSubject(t, j + 1)]

TypeMatchBare(t, k) ==
  IF TailMatches(t, k + 1)
  THEN [ok |-> TRUE,
        type |-> SubSeq(t, 1, k),
        scope |-> <<>>,
        subject |-> TailSubject(t, k + 1)]
  ELSE NoMatch

TypeMatchFrom(t, k, closers) ==
  IF k = 0 THEN NoMatch
  ELSE IF closers # {} THEN TypeMatchScoped(t, k, Last(closers))
  ELSE TypeMatchBare(t, k)

TypeMatchAt(t, k) == TypeMatchFrom(t, k, ScopeClosers(t, k))

\* t.match(/^(\w+)(\(.+\))?:\s+(.*)$/): \w+ takes the whole leading word
\* (what follows it is "(" or ":"); the greedy .+ of the scope group ends at
\* the last ")" from which the rest of the pattern still matches.
TypeMatch(t) == TypeMatchAt(t, PrefixLen(t, "word"))

LooseScopeAt(t, k) ==
  /\ k >= 1
  /\ k + 1 <= Len(t)
  /\ t[k + 1] = "("
  /\ \E p \in (k + 3)..(Len(t) - 1) :
       /\ t[p] = ":"
       /\ t[p + 1] = " "
       /\ \A i \in (k + 2)..(p - 1) : IsDot(t[i])

\* /^\w+\(.+\)?: /.test(t): a word, "(", at least one character, then ": "
\* (the optional ")" is itself matched by .+)
LooseScopeTest(t) == LooseScopeAt(t, PrefixLen(t, "word"))

\* t is the trimmed title.  multi[0] is the leading run of symbols and white
\* space, when t starts with a symbol.
SanitizeTrimmed(t, allowEmoji) ==
  IF allowEmoji
  THEN IF t # <<>> /\ IsEmojiSym(t[1])
       THEN <<t[1], " ">> \o TrimStart(Drop(t, PrefixLen(t, "symbolOrSpace")))
       ELSE t
  ELSE TrimStart(StripLeadingClusters(t))

sanitizeTitle(title, allowEmoji) == SanitizeTrimmed(Trim(title), allowEmoji)

\* the three branches on the text t left after the leading clusters
NormalizeResult(t, m) ==
  IF m.ok
  THEN ToLowerCase(m.type) \o m.scope \o <<":", " ">>
         \o LowerFirst(StripTrailingPeriod(Trim(m.subject)))
  ELSE IF ~LooseScopeTest(t)
  THEN <<"c", "h", "o", "r", "e", ":", " ">> \o LowerFirst(StripTrailingPeriod(t))
  ELSE t

NormalizeBody(t) == NormalizeResult(t, TypeMatch(t))

\* original is the trimmed title; its first glyph is kept when it is a symbol
NormalizeTrimmed(original) ==
  IF original # <<>> /\ IsEmojiSym(original[1])
  THEN <<original[1], " ">> \o NormalizeBody(Trim(StripLeadingClusters(original)))
  ELSE NormalizeBody(Trim(StripLeadingClusters(original)))

normalizeConventionalTitle(title) == NormalizeTrimmed(Trim(title))

Str(type) ==
  CASE type = "feat" -> <<"f", "e", "a", "t">>
    [] type = "fix" -> <<"f", "i", "x">>
    [] type = "chore" -> <<"c", "h", "o", "r", "e">>
    [] type = "docs" -> <<"d", "o", "c", "s">>
    [] type = "refactor" -> <<"r", "e", "f", "a", "c", "t", "o", "r">>
    [] type = "test" -> <<"t", "e", "s", "t">>
    [] type = "ci" -> <<"c", "i">>
    [] type = "perf" -> <<"p", "e", "r", "f">>
    [] type = "style" -> <<"s", "t", "y", "l", "e">>
    [] type = "build" -> <<"b", "u", "i", "l", "d">>
    [] type = "revert" -> <<"r", "e", "v", "e", "r", "t">>
    [] type = "merge" -> <<"m", "e", "r", "g", "e">>
    [] type = "security" -> <<"s", "e", "c", "u", "r", "i", "t", "y">>
    [] type = "release" -> <<"r", "e", "l", "e", "a", "s", "e">>

ConventionalTypes ==
  {"feat", "fix", "chore", "docs", "refactor", "test", "ci", "perf", "style",
   "build", "revert", "merge", "security", "release"}

\* SECRET_PATTERNS.some(pat => pat.test(body)), on the bodies the model
\* provider hands out
SecretBody == "AWS_SECRET_ACCESS_KEY=abc"

Bodies == {"", SecretBody}

SECRET_PATTERNS(body) == body = SecretBody

TypedHeadOf(s, n) ==
  \/ /\ n + 2 <= Len(s)
     /\ s[n + 1] = ":"
     /\ IsSpace(s[n + 2])
  \/ /\ n + 1 <= Len(s)
     /\ s[n + 1] = "("
     /\ \E j \in (n + 3)..(Len(s) - 2) :
          /\ s[j] = ")"
          /\ s[j + 1] = ":"
          /\ IsSpace(s[j + 2])
          /\ \A i \in (n + 2)..(j - 1) : IsDot(s[i])

\* a conventional type, then "(scope)" or nothing, then ":" and white space,
\* at the head of s: the tails of the first and the last alternative of
\* CONVENTIONAL_RE
TypedHead(s) ==
  \E ct \in ConventionalTypes :
    /\ Len(Str(ct)) <= Len(s)
    /\ SubSeq(s, 1, Len(Str(ct))) = Str(ct)
    /\ TypedHeadOf(s, Len(Str(ct)))

ConventionalAt(title, k, ws) ==
  \/ k >= 1 /\ ws >= 1 /\ TypedHead(Drop(title, k + ws))
  \/ /\ k >= 1
     /\ k + 2 <= Len(title)
     /\ title[k + 1] = ":"
     /\ IsSpace(title[k + 2])
  \/ /\ k >= 1
     /\ k + 1 <= Len(title)
     /\ title[k + 1] = ":"
     /\ \A i \in (k + 2)..Len(title) : IsSpace(title[i])
  \/ TypedHead(title)

ConventionalFrom(title, k) ==
  ConventionalAt(title, k, PrefixLen(Drop(title, k), "space"))

\* CONVENTIONAL_RE.test(title)
CONVENTIONAL_RE(title) == ConventionalFrom(title, PrefixLen(title, "symbol"))

checkCandidate(candidate) ==
  (IF ~CONVENTIONAL_RE(candidate.title)
   THEN <<"Not a valid conventional commit title.">> ELSE <<>>)
  \o (IF SECRET_PATTERNS(candidate.body)
      THEN <<"Potential secret detected.">> ELSE <<>>)


(***************************************************************************)
(* title-format.ts                                                         *)
(***************************************************************************)

EMOJI_MAP ==
  [type \in ConventionalTypes |->
     CASE type = "feat" -> <<"SPARKLES">>
       [] type = "fix" -> <<"BUG">>
       [] type = "chore" -> <<"BROOM">>
       [] type = "docs" -> <<"MEMO">>
       [] type = "refactor" -> <<"RECYCLE", VS16>>
       [] type = "test" -> <<"CHECK">>
       [] type = "ci" -> <<"ROBOT">>
       [] type = "perf" -> <<"ZAP", VS16>>
       [] type = "style" -> <<"ART">>
       [] type = "build" -> <<"CRANE", VS16>>
       [] type = "revert" -> <<"REWIND">>
       [] type = "merge" -> <<"SHUFFLE">>
       [] type = "security" -> <<"LOCK">>
       [] type = "release" -> <<"LABEL", VS16>>]

\* String(Object.prototype.constructor), written as one character: what the
\* property lookup EMOJI_MAP["constructor"] finds on the prototype chain
ObjectConstructorText == "function Object() { [native code] }"

\* EMOJI_MAP[type] || wrench.  EMOJI_MAP is an object literal, so the lookup
\* also finds the one all-lower-case word Object.prototype defines.
EmojiFor(type) ==
  IF \E ct \in ConventionalTypes : Str(ct) = type
  THEN EMOJI_MAP[CHOOSE ct \in ConventionalTypes : Str(ct) = type]
  ELSE IF type = <<"c", "o", "n", "s", "t", "r", "u", "c", "t", "o", "r">>
  THEN <<ObjectConstructorText>>
  ELSE <<"WRENCH">>

EmojiTypeMatchAt(norm, ws) ==
  IF norm # <<>> /\ IsEmojiSym(norm[1]) /\ ws >= 1
  THEN TypeMatch(Drop(norm, 1 + ws))
  ELSE NoMatch

\* norm.match(EMOJI_TYPE_RE): one symbol, white space, then the TYPE_RE shape
EmojiTypeMatch(norm) == EmojiTypeMatchAt(norm, PrefixLen(Drop(norm, 1), "space"))

EmojiColonAt(norm, k) == k >= 1 /\ k + 1 <= Len(norm) /\ norm[k + 1] = ":"

\* /^([\p{Emoji}\p{So}\p{Sk}])+:/u.test(norm)
EmojiColonTest(norm) == EmojiColonAt(norm, PrefixLen(norm, "symbol"))

EmojiWordColonAt(norm, k, ws) ==
  /\ k >= 1
  /\ ws >= 1
  /\ k + ws + 1 <= Len(norm)
  /\ IsWord(norm[k + ws + 1])
  /\ \E p \in (k + ws + 2)..Len(norm) :
       /\ norm[p] = ":"
       /\ \A i \in (k + ws + 2)..(p - 1) : IsDot(norm[i])

EmojiWordColonFrom(norm, k) ==
  EmojiWordColonAt(norm, k, PrefixLen(Drop(norm, k), "space"))

\* /^([\p{Emoji}\p{So}\p{Sk}])+\s+\w+.*:/u.test(norm)
EmojiWordColonTest(norm) == EmojiWordColonFrom(norm, PrefixLen(norm, "symbol"))

Modes == {"standard", "gitmoji", "gitmoji-pure"}

\* mode === "gitmoji-pure"; em and tm are the matches of EMOJI_TYPE_RE and
\* TYPE_RE on norm
RenderPure(norm, em, tm) ==
  IF em.ok
  THEN <<norm[1], ":", " ">> \o em.subject
  ELSE IF tm.ok
  THEN EmojiFor(tm.type) \o <<":", " ">> \o tm.subject
  ELSE IF ~EmojiColonTest(norm)
  THEN <<"WRENCH", ":", " ">> \o norm
  ELSE norm

\* gitmoji mode
RenderGitmoji(norm, em, tm) ==
  IF em.ok
  THEN norm
  ELSE IF tm.ok
  THEN EmojiFor(tm.type) \o <<" ">> \o tm.type \o tm.scope
         \o <<":", " ">> \o tm.subject
  ELSE IF ~EmojiWordColonTest(norm)
  THEN <<"WRENCH", " ", "c", "h", "o", "r", "e", ":", " ">> \o norm
  ELSE norm

RenderTitle(norm, allowGitmoji, mode) ==
  IF ~allowGitmoji \/ (mode # "gitmoji" /\ mode # "gitmoji-pure")
  THEN norm
  ELSE IF mode = "gitmoji-pure"
  THEN RenderPure(norm, EmojiTypeMatch(norm), TypeMatch(norm))
  ELSE RenderGitmoji(norm, EmojiTypeMatch(norm), TypeMatch(norm))

formatCommitTitle(raw, allowGitmoji, mode) ==
  RenderTitle(normalizeConventionalTitle(sanitizeTitle(raw, allowGitmoji)),
              allowGitmoji, mode)

(***************************************************************************)
(* The workflows.  The repository is the git index (staged), the commit    *)
(* log (commits) and the session file (session).                           *)
(***************************************************************************)

VARIABLES
  staged,      \* the git index: the paths staged against HEAD
  commits,     \* the commit log, oldest first
  session,     \* the parsed text of last-session.json, or NoSession
  config,      \* the resolved AppConfig
  runs,        \* how many commands were started
  cmd,         \* the command that runs: "generate", "split", "refine"
  pc,          \* where the command is
  outcome,     \* how the command ended
  plan,        \* the CommitPlan of the run (for refine: session.plan)
  candidates,  \* the formatted candidates (for refine: the refined one)
  cursor,      \* split: position in the loop; refine: the index
  errors,      \* the validation errors of the candidate last validated
  warned,      \* the validation errors printed before the confirm prompt
  skipped,     \* split: the candidates answered Skipping commit due to errors
  variant,     \* refine: which source of runRefine runs
  options,     \* refine: the options of the command line
  pre,         \* the session, the commit count and the index when the run began
  fmt,         \* the title formatter under test
  call         \* a call of parseDiffFromRaw, extractJSON or a prompt builder

wfVars ==
  <<staged, commits, session, config, runs, cmd, pc, outcome, plan,
    candidates, cursor, errors, warned, skipped, variant, options, pre>>

vars == <<wfVars, fmt, call>>

\* ---- bounds ----

\* how many commands one behaviour starts
MaxRuns == 2

\* how many commits a model reply proposes at most
MaxCands == 2

\* the longest title the formatter is run on exhaustively
MaxLen == 4

Files == {"a.ts", "b.ts"}

\* no file last-session.json
NoSession == [missing |-> TRUE]

\* a JS number, or undefined
Undefined == <<>>

Num(n) == <<n>>

None == [none |-> TRUE]

TitleFeat == <<"f", "e", "a", "t", ":", " ", "a">>

TitleFix == <<"F", "i", "x", " ", "b", ".">>

TitleTmp == <<"t", "m", "p", ":", " ", "c">>

\* the commits the model provider proposes: a typed title per file, an
\* untyped title that names no files, and an unknown type with a secret in
\* its body for all files
ModelCandidates ==
  {[title |-> TitleFeat, body |-> "", score |-> 90, files |-> {f}] : f \in Files}
    \cup {[title |-> TitleFix, body |-> "", score |-> 90, files |-> {}]}
    \cup {[title |-> TitleTmp, body |-> SecretBody, score |-> 90, files |-> Files]}

SeqsUpTo(S, n) == UNION {[1..k -> S] : k \in 1..n}

\* PlanSchema: commits is a non-empty array
Plans == {[commits |-> cs] : cs \in SeqsUpTo(ModelCandidates, MaxCands)}

\* a rejection of provider.chat (timeout, process failure)
ProviderError == [rejected |-> TRUE, text |-> <<>>]

\* ---- the text of a reply: a sequence of pieces ----

Sym(s) == [sym |-> s]

LB == Sym("{")

RB == Sym("}")

LSQ == Sym("[")

RSQ == Sym("]")

COMMA == Sym(",")

NL == Sym("NL")

SP == Sym(" ")

\* words without braces
Prose == Sym("prose")

\* a code fence
Fence == Sym("fence")

KeyCommits == Sym("commits:")

KeyMeta == Sym("meta:")

MetaFields == Sym("splitRecommended:false")

\* the members of one commit object: "title":...,"body":...,"score":...
Fields(w) == [fields |-> w]

IsFields(tok) == "fields" \in DOMAIN tok

JStr(s) == [type |-> "string", value |-> s]

JNum(n) == [type |-> "number", value |-> n]

JMissing == [type |-> "undefined"]

\* white space of String.prototype.trim, of \s and of JSON
IsWs(tok) == tok \in {NL, SP}

NotWs(tok) == ~IsWs(tok)

\* raw.trim()
TrimText(raw) ==
  IF \A i \in 1..Len(raw) : IsWs(raw[i])
  THEN <<>>
  ELSE SubSeq(raw,
              CHOOSE i \in 1..Len(raw) :
                NotWs(raw[i]) /\ \A k \in 1..(i - 1) : IsWs(raw[k]),
              CHOOSE j \in 1..Len(raw) :
                NotWs(raw[j]) /\ \A k \in (j + 1)..Len(raw) : IsWs(raw[k]))

\* trimmed.startsWith('{') && trimmed.endsWith('}')
FastPath(trimmed) ==
  trimmed # <<>> /\ trimmed[1] = LB /\ trimmed[Len(trimmed)] = RB

\* the places where \}$ can match under the m flag, after position i: a
\* closing brace at the end of a line
BraceEnds(raw, i) ==
  {j \in (i + 1)..Len(raw) :
     raw[j] = RB /\ (j = Len(raw) \/ raw[j + 1] = NL)}

\* raw.match(/\{[\s\S]*\}$/m): from the first opening brace, greedily, to
\* the last closing brace that ends a line; <<>> without a match
BraceMatchFrom(raw, i) ==
  IF BraceEnds(raw, i) = {} THEN <<>> ELSE SubSeq(raw, i, Last(BraceEnds(raw, i)))

BraceMatch(raw) ==
  IF \E i \in 1..Len(raw) : raw[i] = LB
  THEN BraceMatchFrom(raw, CHOOSE i \in 1..Len(raw) :
                             raw[i] = LB /\ \A k \in 1..(i - 1) : raw[k] # LB)
  ELSE <<>>

\* jsonText, <<>> for null
JsonText(raw) ==
  IF FastPath(TrimText(raw)) THEN TrimText(raw) ELSE BraceMatch(raw)

SyntaxError == [syntaxError |-> TRUE]

\* the commit objects between the brackets: {..} , {..} , ...
ItemsOk(items) ==
  /\ Len(items) = 0 \/ Len(items) % 4 = 3
  /\ \A m \in 1..Len(items) :
       CASE m % 4 = 1 -> items[m] = LB
         [] m % 4 = 2 -> IsFields(items[m])
         [] m % 4 = 3 -> items[m] = RB
         [] OTHER -> items[m] = COMMA

ItemsOf(items) == [k \in 1..((Len(items) + 1) \div 4) |-> items[4 * k - 2].fields]

\* t from the array on: the items up to the bracket at r, then the end of
\* the object, with or without meta
ParseArray(t, r) ==
  IF /\ ItemsOk(SubSeq(t, 4, r - 1))
     /\ Drop(t, r) \in {<<RB>>, <<COMMA, KeyMeta, LB, MetaFields, RB, RB>>}
  THEN [hasCommits |-> TRUE, commits |-> ItemsOf(SubSeq(t, 4, r - 1))]
  ELSE SyntaxError

\* t is the text without its white space
ParseTokens(t) ==
  IF t = <<LB, RB>>
  THEN [hasCommits |-> FALSE, commits |-> <<>>]
  ELSE IF /\ Len(t) >= 5
          /\ SubSeq(t, 1, 3) = <<LB, KeyCommits, LSQ>>
          /\ \E r \in 4..Len(t) : t[r] = RSQ
  THEN ParseArray(t, CHOOSE r \in 4..Len(t) :
                       t[r] = RSQ /\ \A k \in 4..(r - 1) : t[k] # RSQ)
  ELSE SyntaxError

\* JSON.parse(jsonText), for the objects a plan is written as
JSONparse(jsonText) == ParseTokens(SelectSeq(jsonText, NotWs))

\* z.string().min(5).max(150)
TitleMin == 5

TitleMax == 150

\* z.number().min(0).max(100)
ScoreMin == 0

ScoreMax == 100

\* CommitSchema
CommitSchema(w) ==
  /\ w.title.type = "string"
  /\ Len(w.title.value) \in TitleMin..TitleMax
  /\ w.body.type \in {"string", "undefined"}
  /\ w.score.type = "number"
  /\ w.score.value \in ScoreMin..ScoreMax

\* the parsed commit, body with its default
CommitOf(w) ==
  [title |-> w.title.value,
   body |-> IF w.body.type = "undefined" THEN "" ELSE w.body.value,
   score |-> w.score.value,
   files |-> w.files]

\* what extractJSON throws
Thrown(message) == [thrown |-> message]

Threw(result) == "thrown" \in DOMAIN result

\* the message of a ZodError: the list of its issues
ZodIssues == "[zod issues]"

\* PlanSchema.parse(parsed)
PlanSchema(parsed) ==
  IF /\ parsed.hasCommits
     /\ Len(parsed.commits) >= 1
     /\ \A k \in 1..Len(parsed.commits) : CommitSchema(parsed.commits[k])
  THEN [commits |-> [k \in 1..Len(parsed.commits) |-> CommitOf(parsed.commits[k])]]
  ELSE Thrown(ZodIssues)

ParseAndValidate(parsed) ==
  IF parsed = SyntaxError THEN Thrown("Invalid JSON parse") ELSE PlanSchema(parsed)

\* extractJSON without the schema: what JSON.parse returns is the plan
extractJSONUnchecked(raw) ==
  IF JsonText(raw) = <<>>
  THEN Thrown("No JSON object detected.")
  ELSE IF JSONparse(JsonText(raw)) = SyntaxError
  THEN Thrown("Invalid JSON parse")
  ELSE [commits |-> [k \in 1..Len(JSONparse(JsonText(raw)).commits) |->
                       CommitOf(JSONparse(JsonText(raw)).commits[k])]]

extractJSON(raw) ==
  IF JsonText(raw) = <<>>
  THEN Thrown("No JSON object detected.")
  ELSE ParseAndValidate(JSONparse(JsonText(raw)))

\* ---- what the model writes ----

\* a commit as the members of a JSON object
Wire(c) ==
  [title |-> JStr(c.title), body |-> JStr(c.body), score |-> JNum(c.score),
   files |-> c.files]

RECURSIVE ItemTokens(_)
ItemTokens(ws) ==
  IF ws = <<>> THEN <<>>
  ELSE IF Len(ws) = 1 THEN <<LB, Fields(ws[1]), RB>>
  ELSE <<LB, Fields(ws[1]), RB, COMMA>> \o ItemTokens(Tail(ws))

\* the plan on one line
Compact(ws) == <<LB, KeyCommits, LSQ>> \o ItemTokens(ws) \o <<RSQ, RB>>

\* the plan over several lines, with meta
Pretty(ws) ==
  <<LB, NL, SP, KeyCommits, LSQ>> \o ItemTokens(ws)
    \o <<RSQ, COMMA, NL, SP, KeyMeta, LB, MetaFields, RB, NL, RB>>

WireOfPlan(p) == [k \in 1..Len(p.commits) |-> Wire(p.commits[k])]

Reply(text) == [rejected |-> FALSE, text |-> text]

\* text without a brace, an object that is cut off, a plan whose title is
\* too short
FailingReplies ==
  {<<Prose>>,
   <<LB, KeyCommits, LSQ, LB>>,
   Compact(<<[title |-> JStr(<<"f", "i", "x">>), body |-> JStr(""),
              score |-> JNum(90), files |-> {}]>>)}

\* provider.chat(...): the text of a plan, text that holds no valid plan, or
\* a rejection
ProviderReplies ==
  {Reply(Compact(WireOfPlan(p))) : p \in Plans}
    \cup {Reply(t) : t \in FailingReplies}
    \cup {ProviderError}

\* a call of provider.chat and what extractJSON makes of its result
Exchange(reply) ==
  [raw |-> reply,
   parsed |-> IF reply = ProviderError THEN ProviderError
              ELSE extractJSON(reply.text)]

Exchanges == {Exchange(reply) : reply \in ProviderReplies}

\* the environments the configuration resolves to: the style, and the
\* gitmoji / gitmojiMode pair older callers read
Configs ==
  {[style |-> m, gitmoji |-> (m # "standard"), gitmojiMode |-> m] : m \in Modes}

\* runValidations(candidate, plugins, ctx): what the loaded plugins report
PluginReports == {<<>>, <<"plugin: rejected">>}

\* JS array index (0-based)
At(arr, i) == arr[i + 1]

Has(arr, i) == i \in 0..(Len(arr) - 1)

\* [title, body].join("\n\n") when there is a body, else the title
Message(title, body) ==
  IF body # "" THEN title \o <<"NL", "NL">> \o <<body>> ELSE title

\* git.commit(message) on the index: commits what is staged.  With nothing
\* staged git creates no commit.
createCommit(log, index, title, body, by) ==
  IF index = {} THEN log
  ELSE Append(log, [message |-> Message(title, body), files |-> index,
                    run |-> runs, by |-> by])

\* saveSession as it would be if it merged into the document it finds: the
\* plan of the earlier run is kept
saveSessionMerged(data) ==
  IF session = NoSession THEN data ELSE [data EXCEPT !.plan = session.plan]

\* writeFileSync(last-session.json, JSON.stringify(data)): the file holds this
\* one document.  A plan holds strings and arrays only, which JSON.parse
\* gives back as JSON.stringify got them.
saveSession(data) == data

\* JSON.parse(readFileSync(...)), null when the file is missing
loadSession == session

Idle ==
  /\ cmd = "none"
  /\ pc = "idle"

RunLocalsReset ==
  /\ cmd' = "none"
  /\ pc' = "idle"
  /\ outcome' = "none"
  /\ plan' = None
  /\ candidates' = <<>>
  /\ cursor' = 0
  /\ errors' = <<>>
  /\ warned' = <<>>
  /\ skipped' = {}
  /\ variant' = "none"
  /\ options' = None
  /\ pre' = [session |-> NoSession, ncommits |-> 0, staged |-> {}]

FmtIdle == [step |-> "off"]

CallIdle == [fn |-> "none"]

WorkflowInit ==
  /\ staged = {}
  /\ commits = <<>>
  /\ session = NoSession
  /\ config \in Configs
  /\ runs = 0
  /\ cmd = "none"
  /\ pc = "idle"
  /\ outcome = "none"
  /\ plan = None
  /\ candidates = <<>>
  /\ cursor = 0
  /\ errors = <<>>
  /\ warned = <<>>
  /\ skipped = {}
  /\ variant = "none"
  /\ options = None
  /\ pre = [session |-> NoSession, ncommits |-> 0, staged |-> {}]

Init ==
  /\ WorkflowInit
  /\ fmt = FmtIdle
  /\ call = CallIdle

\* the user stages files (git add) between two commands
StageFiles ==
  /\ Idle
  /\ runs < MaxRuns
  /\ \E F \in SUBSET Files : F # {} /\ F # staged /\ staged' = F
  /\ UNCHANGED <<commits, session, config, runs, cmd, pc, outcome, plan,
                 candidates, cursor, errors, warned, skipped, variant, options, pre, fmt, call>>

\* the command has returned (or thrown) and the process exits
Exit ==
  /\ pc = "done"
  /\ RunLocalsReset
  /\ UNCHANGED <<staged, commits, session, config, runs, fmt, call>>

\* the head of runGenerate and of runSplit: ensureStagedChanges, parseDiff
Begin(command, next) ==
  /\ Idle
  /\ runs < MaxRuns
  /\ runs' = runs + 1
  /\ cmd' = command
  /\ pre' = [session |-> session, ncommits |-> Len(commits),
             staged |-> staged]
  /\ \/ /\ staged = {}
        /\ outcome' = "no staged changes"
        /\ pc' = "done"
     \/ /\ staged # {}
        /\ \E diffEmpty \in BOOLEAN :
             IF diffEmpty
             THEN outcome' = "no diff content" /\ pc' = "done"
             ELSE outcome' = "none" /\ pc' = next
  /\ UNCHANGED <<staged, commits, session, config, plan, candidates, cursor,
                 errors, warned, skipped, variant, options, fmt, call>>

\* candidates.map(c => ({...c, title: formatCommitTitle(c.title, opts)}))
FormatAll(cs, allowGitmoji, mode) ==
  [i \in 1..Len(cs) |->
     [cs[i] EXCEPT !.title = formatCommitTitle(cs[i].title, allowGitmoji, mode)]]

\* ---- runGenerate ----

GenerateStart == Begin("generate", "gen model")

Finish(how) ==
  /\ outcome' = how
  /\ pc' = "done"

\* Calling model, Parsing response, Analyzing changes, formatting, the
\* validations and the Checks block, up to the confirm prompt.  A rejection
\* inside runStep leaves runGenerate.
GenerateModel ==
  /\ cmd = "generate"
  /\ pc = "gen model"
  /\ \E chat \in Exchanges :
       IF chat.raw = ProviderError
       THEN /\ Finish("provider error")
            /\ UNCHANGED <<plan, candidates, errors, warned>>
       ELSE IF Threw(chat.parsed)
       THEN /\ Finish("parse error")
            /\ UNCHANGED <<plan, candidates, errors, warned>>
       ELSE \E pluginErrors \in PluginReports :
              LET cs == FormatAll(chat.parsed.commits,
                                  config.style \in {"gitmoji", "gitmoji-pure"},
                                  config.style)
                  chosen == cs[1]
                  errs == pluginErrors \o checkCandidate(chosen)
              IN  /\ plan' = chat.parsed
                  /\ candidates' = cs
                  /\ errors' = errs
                  /\ warned' = errs
                  /\ pc' = "gen confirm"
                  /\ UNCHANGED outcome
  /\ UNCHANGED <<staged, commits, session, config, runs, cmd, cursor,
                 skipped, variant, options, pre, fmt, call>>

\* GenerateConfirm as it would be if the session were saved before the
\* prompt: a No still overwrites the file
GenerateConfirmSavesFirst ==
  /\ cmd = "generate"
  /\ pc = "gen confirm"
  /\ \E yn \in BOOLEAN :
       /\ session' = saveSession([plan |-> plan, chosen |-> candidates[1],
                                  mode |-> "single"])
       /\ IF ~yn
          THEN /\ Finish("cancelled")
               /\ UNCHANGED <<staged, commits>>
          ELSE /\ commits' = createCommit(commits, staged, candidates[1].title,
                                          candidates[1].body, 0)
               /\ staged' = {}
               /\ Finish("completed")
  /\ UNCHANGED <<config, runs, cmd, plan, candidates, cursor, errors, warned, skipped,
                 variant, options, pre, fmt, call>>

\* selectYesNo, then createCommit and saveSession
GenerateConfirm ==
  /\ cmd = "generate"
  /\ pc = "gen confirm"
  /\ \E yn \in BOOLEAN, commitThrows \in BOOLEAN :
       LET chosen == candidates[1]
       IN  IF ~yn
           THEN /\ Finish("cancelled")
                /\ UNCHANGED <<staged, commits, session>>
           ELSE IF commitThrows
           THEN /\ Finish("commit failed")
                /\ UNCHANGED <<staged, commits, session>>
           ELSE /\ commits' = createCommit(commits, staged, chosen.title,
                                           chosen.body, 0)
                /\ staged' = {}
                /\ session' = saveSession([plan |-> plan, chosen |-> chosen,
                                           mode |-> "single"])
                /\ Finish("completed")
  /\ UNCHANGED <<config, runs, cmd, plan, candidates, cursor, errors, warned, skipped,
                 variant, options, pre, fmt, call>>

\* ---- runSplit ----

SplitStart == Begin("split", "split model")

\* Calling model for split plan, Parsing response, transforms, formatting and
\* the list of proposed commits, up to the single confirm prompt.  Both
\* failures are caught and printed.
SplitModel ==
  /\ cmd = "split"
  /\ pc = "split model"
  /\ \E chat \in Exchanges :
       IF chat.raw = ProviderError
       THEN /\ Finish("provider error")
            /\ UNCHANGED <<plan, candidates>>
       ELSE IF Threw(chat.parsed)
       THEN /\ Finish("parse error")
            /\ UNCHANGED <<plan, candidates>>
       ELSE /\ plan' = chat.parsed
            /\ candidates' =
                 FormatAll(chat.parsed.commits, config.gitmoji,
                           IF config.gitmojiMode \in Modes
                           THEN config.gitmojiMode ELSE "standard")
            /\ pc' = "split confirm"
            /\ UNCHANGED outcome
  /\ UNCHANGED <<staged, commits, session, config, runs, cmd, cursor, errors,
                 warned, skipped, variant, options, pre, fmt, call>>

\* Apply these commit messages?
SplitConfirm ==
  /\ cmd = "split"
  /\ pc = "split confirm"
  /\ \E ok \in BOOLEAN :
       IF ok
       THEN pc' = "split loop" /\ cursor' = 0 /\ UNCHANGED outcome
       ELSE Finish("cancelled") /\ UNCHANGED cursor
  /\ UNCHANGED <<staged, commits, session, config, runs, cmd, plan,
                 candidates, errors, warned, skipped, variant, options, pre, fmt, call>>

\* One turn of the loop over the candidates: the validations, then either
\* the skip or createCommit on the index as it is.  After the last turn the
\* session is saved.  A rejection of createCommit leaves runSplit.
SplitCommit ==
  /\ cmd = "split"
  /\ pc = "split loop"
  /\ Has(candidates, cursor)
  /\ \E pluginErrors \in PluginReports, commitThrows \in BOOLEAN :
       LET candidate == At(candidates, cursor)
           errs == pluginErrors \o checkCandidate(candidate)
           last == cursor = Len(candidates) - 1
           loopEnd ==
             IF last
             THEN /\ session' = saveSession([plan |-> plan,
                                             chosen |-> candidates,
                                             mode |-> "split"])
                  /\ Finish("completed")
             ELSE /\ UNCHANGED <<session, outcome>>
                  /\ pc' = "split loop"
       IN  /\ errors' = errs
           /\ IF errs # <<>>
              THEN /\ skipped' = skipped \cup {cursor}
                   /\ cursor' = cursor + 1
                   /\ UNCHANGED <<staged, commits>>
                   /\ loopEnd
              ELSE IF commitThrows
              THEN /\ Finish("commit failed")
                   /\ UNCHANGED <<staged, commits, session, cursor, skipped>>
              ELSE /\ commits' = createCommit(commits, staged, candidate.title,
                                              candidate.body, cursor)
                   /\ staged' = {}
                   /\ cursor' = cursor + 1
                   /\ UNCHANGED skipped
                   /\ loopEnd
  /\ UNCHANGED <<config, runs, cmd, plan, candidates, warned, variant, options, pre,
                 fmt, call>>

\* ---- runRefine ----

\* the two sources of runRefine: the one that draws the panels
\* (workflow/split.ts) and the one that prints plain lines
RefineVariants == {"panel", "plain"}

\* --index as RefineCommand.execute passes it on: parseInt of the flag, or
\* undefined without the flag
IndexOptions == {Undefined} \cup {Num(n) : n \in 0..(MaxCands + 1)}

RefineOptions == [index : IndexOptions, instructed : BOOLEAN, emoji : BOOLEAN]

\* panel: options.index ? Number(options.index) - 1 : 0
\* plain: options.index ?? 0
ResolveIndex(v, index) ==
  IF v = "panel"
  THEN IF index = Undefined \/ index = Num(0) THEN 0 ELSE index[1] - 1
  ELSE IF index = Undefined THEN 0 ELSE index[1]

\* loadSession, the index check and the instructions.  instructed is whether
\* a flag or the custom prompt gave an instruction.
RefineStart ==
  /\ Idle
  /\ runs < MaxRuns
  /\ runs' = runs + 1
  /\ cmd' = "refine"
  /\ pre' = [session |-> session, ncommits |-> Len(commits),
             staged |-> staged]
  /\ \E v \in RefineVariants, o \in RefineOptions :
       LET index == ResolveIndex(v, o.index)
       IN  /\ variant' = v
           /\ options' = o
           /\ IF loadSession = NoSession
              THEN Finish("no session") /\ UNCHANGED <<plan, cursor>>
              ELSE IF ~Has(loadSession.plan.commits, index)
              THEN /\ Finish("invalid index")
                   /\ plan' = loadSession.plan
                   /\ cursor' = index
              ELSE /\ plan' = loadSession.plan
                   /\ cursor' = index
                   /\ IF o.instructed
                      THEN pc' = "ref model" /\ outcome' = "none"
                      ELSE Finish("nothing to refine")
  /\ UNCHANGED <<staged, commits, session, config, candidates, errors,
                 warned, skipped, fmt, call>>

\* buildRefineMessages, provider.chat, extractJSON and the formatting of the
\* refined title, up to the prompt.  panel: both failures leave runRefine;
\* plain: the parse failure is caught and printed.
RefineModel ==
  /\ cmd = "refine"
  /\ pc = "ref model"
  /\ \E chat \in Exchanges :
       IF chat.raw = ProviderError
       THEN Finish("provider error") /\ UNCHANGED candidates
       ELSE IF Threw(chat.parsed)
       THEN Finish("parse error") /\ UNCHANGED candidates
       ELSE /\ candidates' =
                 FormatAll(<<chat.parsed.commits[1]>>,
                           config.gitmoji \/ options.emoji,
                           IF config.gitmojiMode \in Modes
                           THEN config.gitmojiMode ELSE "standard")
            /\ pc' = "ref confirm"
            /\ UNCHANGED outcome
  /\ UNCHANGED <<staged, commits, session, config, runs, cmd, plan, cursor,
                 errors, warned, skipped, variant, options, pre, fmt, call>>

\* The prompt.  panel: on Yes session.plan.commits[index] is replaced and
\* the session saved.  plain: on acceptance plan.commits[index] is replaced
\* in memory and a line printed; nothing is written.
RefineConfirm ==
  /\ cmd = "refine"
  /\ pc = "ref confirm"
  /\ \E ok \in BOOLEAN :
       IF ~ok
       THEN Finish("cancelled") /\ UNCHANGED <<session, plan>>
       ELSE /\ plan' = [plan EXCEPT !.commits[cursor + 1] = candidates[1]]
            /\ session' =
                 IF variant = "panel"
                 THEN saveSession([loadSession EXCEPT
                                     !.plan.commits[cursor + 1] = candidates[1]])
                 ELSE session
            /\ Finish("completed")
  /\ UNCHANGED <<staged, commits, config, runs, cmd, candidates, cursor,
                 errors, warned, skipped, variant, options, pre, fmt, call>>

WorkflowNext ==
  \/ StageFiles
  \/ GenerateStart
  \/ GenerateModel
  \/ GenerateConfirm
  \/ SplitStart
  \/ SplitModel
  \/ SplitConfirm
  \/ SplitCommit
  \/ RefineStart
  \/ RefineModel
  \/ RefineConfirm
  \/ Exit

Next == WorkflowNext

Spec == Init /\ [][Next]_vars

(***************************************************************************)
(* formatCommitTitle on its own: a title is drawn, formatted, and the      *)
(* result formatted again with the same options.                           *)
(***************************************************************************)

\* the code points the free titles are made of
TitleAlphabet == {"b", "F", ".", ":", " ", "(", ")", "SPARKLES"}

FreeTitles == UNION {[1..k -> TitleAlphabet] : k \in 1..MaxLen}

NoForm == [free |-> TRUE]

\* titles written as <type>[(<scope>)]: <subject>, already in the shape the
\* normaliser leaves alone (lower case, no trailing period)
FormTypes ==
  {Str("feat"), Str("perf"), <<"t", "m", "p">>,
   <<"c", "o", "n", "s", "t", "r", "u", "c", "t", "o", "r">>}

FormScopes == {<<>>, <<"(", "x", ")">>}

FormSubjects == {<<"a">>, <<"a", " ", "b">>}

Forms == [type : FormTypes, scope : FormScopes, subject : FormSubjects]

FormTitle(f) == f.type \o f.scope \o <<":", " ">> \o f.subject

FmtInput(raw, form, allowGitmoji, mode) ==
  [step |-> "raw", raw |-> raw, form |-> form, allow |-> allowGitmoji,
   mode |-> mode, once |-> <<>>, twice |-> <<>>, lead |-> <<>>, body |-> ""]

\* one emoji in front of a title: a glyph of one code point, and glyphs of
\* EMOJI_MAP with and without a variation selector
FormEmojis == {<<"ROBOT">>, EMOJI_MAP["feat"], EMOJI_MAP["perf"]}

\* titles written as <emoji> <type>[(<scope>)]: <subject>
EmojiFmtInput(emoji, f, allowGitmoji, mode) ==
  [FmtInput(emoji \o <<" ">> \o FormTitle(f), NoForm, allowGitmoji, mode)
     EXCEPT !.lead = <<emoji, f>>]

\* titles as a model writes them: capitals, a trailing period, a scope that
\* is closed, left open or followed by a letter, an emoji in front
ScopedTitles ==
  {lead \o <<"F", "b">> \o scope \o <<":", " ">> \o subject :
     lead \in {<<>>, <<"SPARKLES", " ">>},
     scope \in {<<>>, <<"(", "X", ")">>, <<"(", "X">>, <<"(", "X", ")", "b">>},
     subject \in {<<"B", ".">>, <<"b", " ", "B">>}}

\* titles written as <emoji>: <subject>
PureTitles ==
  {e \o <<":", " ">> \o subject : e \in FormEmojis, subject \in FormSubjects}

FmtInputs ==
  {FmtInput(t, NoForm, a, m) : t \in FreeTitles, a \in BOOLEAN, m \in Modes}
    \cup {FmtInput(FormTitle(f), f, a, m) :
             f \in Forms, a \in BOOLEAN, m \in Modes}
    \cup {EmojiFmtInput(e, f, a, m) :
             e \in FormEmojis, f \in Forms, a \in BOOLEAN, m \in Modes}
    \cup {FmtInput(t, NoForm, a, m) :
             t \in ScopedTitles \cup PureTitles, a \in BOOLEAN, m \in Modes}

TitleInit ==
  /\ WorkflowInit
  /\ fmt \in FmtInputs
  /\ config.style = fmt.mode
  /\ call = CallIdle

\* formatCommitTitle(raw, opts)
FormatOnce ==
  /\ fmt.step = "raw"
  /\ fmt' = [fmt EXCEPT !.step = "once",
                        !.once = formatCommitTitle(fmt.raw, fmt.allow, fmt.mode)]
  /\ UNCHANGED <<wfVars, call>>

\* formatCommitTitle(formatCommitTitle(raw, opts), opts)
FormatTwice ==
  /\ fmt.step = "once"
  /\ fmt' = [fmt EXCEPT !.step = "twice",
                        !.twice = formatCommitTitle(fmt.once, fmt.allow, fmt.mode)]
  /\ UNCHANGED <<wfVars, call>>

\* normalizeConventionalTitle(raw)
Normalize ==
  /\ fmt.step = "raw"
  /\ fmt' = [fmt EXCEPT !.step = "normalized",
                        !.once = normalizeConventionalTitle(fmt.raw)]
  /\ UNCHANGED <<wfVars, call>>

\* checkCandidate({title: raw, body})
CheckTitle ==
  /\ fmt.step = "raw"
  /\ \E body \in Bodies :
       fmt' = [fmt EXCEPT !.step = "checked",
                          !.body = body,
                          !.once = checkCandidate([title |-> fmt.raw,
                                                   body |-> body])]
  /\ UNCHANGED <<wfVars, call>>

TitleNext ==
  \/ FormatOnce
  \/ FormatTwice
  \/ Normalize
  \/ CheckTitle

SpecTitle == TitleInit /\ [][TitleNext]_vars

(***************************************************************************)
(* git.ts: parseDiffFromRaw.  A diff is the sequence of its lines          *)
(* (raw.split), a line the sequence of its pieces: the characters and      *)
(* words the parser tests for, then the rest of the line.                  *)
(***************************************************************************)

\* ---- bounds ----

\* the longest diff, in lines
MaxLines == 4

\* line.startsWith(prefix)
StartsWith(line, prefix) ==
  /\ Len(prefix) <= Len(line)
  /\ SubSeq(line, 1, Len(prefix)) = prefix

\* the piece at position i, or the empty string past the end
Tok(line, i) == IF i \in 1..Len(line) THEN line[i] ELSE ""

NumberTokens == {"0", "1", "2", "3", "4"}

\* parseInt(text, 10), text being (\d+) or the default
parseInt(text) ==
  CASE text = "0" -> 0
    [] text = "1" -> 1
    [] text = "2" -> 2
    [] text = "3" -> 3
    [] text = "4" -> 4

\* (?:,(\d+))? at position i: the pieces it takes
LenPieces(line, i) ==
  IF Tok(line, i) = "," /\ Tok(line, i + 1) \in NumberTokens THEN 2 ELSE 0

\* m[2] || '1' and m[4] || '1'
LenText(line, i) == IF LenPieces(line, i) = 2 THEN line[i + 1] ELSE "1"

\* m[5]?.trim() || '', and then ctx || undefined
ContextOf(line, i) ==
  IF Trim(Drop(line, i)) = <<>> THEN Undefined ELSE Trim(Drop(line, i))

\* the header whose +(\d+) stands at position j, its -(\d+) at position 3
HeaderFields(line, j) ==
  IF /\ Tok(line, j - 1) = " +"
     /\ Tok(line, j) \in NumberTokens
     /\ Tok(line, j + 1 + LenPieces(line, j + 1)) = " @@"
  THEN [ok |-> TRUE,
        from |-> parseInt(line[3]),
        fromLen |-> parseInt(LenText(line, 4)),
        to |-> parseInt(line[j]),
        toLen |-> parseInt(LenText(line, j + 1)),
        ctx |-> ContextOf(line, j + 1 + LenPieces(line, j + 1))]
  ELSE NoMatch

\* line.match(HUNK_HEADER_RE)
HUNK_HEADER_RE(line) ==
  IF Tok(line, 1) = "@@" /\ Tok(line, 2) = " -" /\ Tok(line, 3) \in NumberTokens
  THEN HeaderFields(line, 5 + LenPieces(line, 4))
  ELSE NoMatch

\* where b/ starts in line.match(/diff --git a\/(.+?) b\/(.+)$/): the first
\* " b/" that leaves a path on both sides, 0 without one
PathSplit(line) ==
  IF \E j \in 4..(Len(line) - 1) : line[j] = " b/"
  THEN CHOOSE j \in 4..(Len(line) - 1) :
         /\ line[j] = " b/"
         /\ \A i \in 4..(j - 1) : line[i] # " b/"
  ELSE 0

NewFile(file) == [file |-> file, hunks |-> <<>>, additions |-> 0, deletions |-> 0]

NoHash == [of |-> <<>>, length |-> 0]

NewHunk(file, line, m) ==
  [file |-> file, header |-> line, from |-> m.from, to |-> m.to,
   added |-> m.toLen, removed |-> m.fromLen, lines |-> <<>>, hash |-> NoHash,
   functionContext |-> m.ctx]

\* currentFile.hunks.push(...)
PushHunk(f, line, m) == [f EXCEPT !.hunks = Append(@, NewHunk(f.file, line, m))]

\* hunk.lines.push(line) and the two counters
PushLine(f, line) ==
  [f EXCEPT
     !.hunks[Len(f.hunks)].lines = Append(@, line),
     !.additions =
        IF StartsWith(line, <<"+">>) /\ ~StartsWith(line, <<"+", "+", "+">>)
        THEN @ + 1 ELSE @,
     !.deletions =
        IF StartsWith(line, <<"-">>) /\ ~StartsWith(line, <<"-", "-", "-">>)
        THEN @ + 1 ELSE @]

LastOf(seq) == seq[Len(seq)]

\* on the current file, which is the last one of files
OnCurrent(files, f) == [files EXCEPT ![Len(files)] = f]

\* one turn of a loop that gives up the parse at a line starting with @@
\* that is no hunk header
ParseLineOfAborting(files, line) ==
  IF StartsWith(line, <<"@@">>) /\ ~HUNK_HEADER_RE(line).ok THEN <<>>
  ELSE IF StartsWith(line, <<"diff --git", " a/">>)
  THEN (IF PathSplit(line) # 0
        THEN Append(files, NewFile(Drop(line, PathSplit(line))))
        ELSE files)
  ELSE IF \/ StartsWith(line, <<"diff --git">>)
          \/ StartsWith(line, <<"index ">>)
          \/ StartsWith(line, <<"-", "-", "-", " ">>)
          \/ StartsWith(line, <<"+", "+", "+", " ">>)
  THEN files
  ELSE IF StartsWith(line, <<"@@">>)
  THEN (IF files # <<>>
        THEN OnCurrent(files, PushHunk(LastOf(files), line, HUNK_HEADER_RE(line)))
        ELSE files)
  ELSE IF files # <<>> /\ LastOf(files).hunks # <<>>
  THEN OnCurrent(files, PushLine(LastOf(files), line))
  ELSE files

\* one turn of the loop over the lines
ParseLineOf(files, line) ==
  IF StartsWith(line, <<"diff --git", " a/">>)
  THEN (IF PathSplit(line) # 0
        THEN Append(files, NewFile(Drop(line, PathSplit(line))))
        ELSE files)
  ELSE IF \/ StartsWith(line, <<"diff --git">>)
          \/ StartsWith(line, <<"index ">>)
          \/ StartsWith(line, <<"-", "-", "-", " ">>)
          \/ StartsWith(line, <<"+", "+", "+", " ">>)
  THEN files
  ELSE IF StartsWith(line, <<"@@">>)
  THEN (IF files # <<>> /\ HUNK_HEADER_RE(line).ok
        THEN OnCurrent(files, PushHunk(LastOf(files), line, HUNK_HEADER_RE(line)))
        ELSE files)
  ELSE IF files # <<>> /\ LastOf(files).hunks # <<>>
  THEN OnCurrent(files, PushLine(LastOf(files), line))
  ELSE files

\* the hex digest of sha1
Sha1HexLen == 40

\* .slice(0, 8)
HashSlice == 8

Min(a, b) == IF a < b THEN a ELSE b

\* crypto.createHash('sha1').update(text).digest('hex').slice(0, 8), the
\* digest standing for the text it was computed from
Hash(file, h) ==
  [of |-> <<file, h.header, h.lines>>, length |-> Min(HashSlice, Sha1HexLen)]

HashHunksOf(f) ==
  [f EXCEPT !.hunks = [k \in 1..Len(f.hunks) |->
                         [f.hunks[k] EXCEPT !.hash = Hash(f.file, f.hunks[k])]]]

\* ---- the lines the diffs are made of ----

PathX == <<"x.ts">>

\* a path with a directory whose name ends in " b"
PathSpaced == <<"lib", " b/", "y.ts">>

FileLine(path) == <<"diff --git", " a/">> \o path \o <<" b/">> \o path

HeaderNew == <<"@@", " -", "0", ",", "0", " +", "1", ",", "2", " @@">>

HeaderEdit ==
  <<"@@", " -", "1", ",", "3", " +", "1", ",", "4", " @@", " ", "foo()">>

HeaderShort == <<"@@", " -", "1", " +", "1", " @@">>

HeaderBad == <<"@@", " -", "x", " @@">>

AddedLine == <<"+", "a">>

\* the added line "++i;"
AddedIncrement == <<"+", "+", "+", "i;">>

RemovedLine == <<"-", "b">>

\* a context line: the line the label of HeaderEdit is taken from
ContextLine == <<" ", "foo()">>

IndexLine == <<"index ", "0000000..e69de29">>

OldMarker == <<"-", "-", "-", " ", "/dev/null">>

NewMarker == <<"+", "+", "+", " ", "b/x.ts">>

DiffLines ==
  {FileLine(PathX), FileLine(PathSpaced), HeaderNew, HeaderEdit, HeaderShort,
   HeaderBad, AddedLine, AddedIncrement, RemovedLine, ContextLine, <<>>}

\* a new file as git prints it, with n added lines
NewFileDiff(path, body) ==
  <<FileLine(path), IndexLine, OldMarker, NewMarker, HeaderNew>> \o body

RawDiffs ==
  UNION {[1..n -> DiffLines] : n \in 1..MaxLines}
    \cup {NewFileDiff(PathX, body) : body \in [1..2 -> {AddedLine, AddedIncrement}]}

\* !raw.trim()
IsBlank(raw) == \A i \in 1..Len(raw) : \A k \in 1..Len(raw[i]) : IsSpace(raw[i][k])

DiffInit ==
  /\ WorkflowInit
  /\ config.style = "standard"
  /\ fmt = FmtIdle
  /\ \E raw \in RawDiffs :
       call = [fn |-> "parseDiffFromRaw", raw |-> raw, i |-> 0, files |-> <<>>,
               step |-> "start"]

\* if (!raw.trim()) return []
ParseStart ==
  /\ call.fn = "parseDiffFromRaw"
  /\ call.step = "start"
  /\ call' = [call EXCEPT !.step = IF IsBlank(call.raw) THEN "returned" ELSE "lines"]
  /\ UNCHANGED <<wfVars, fmt>>

\* for (const line of lines)
ParseLine ==
  /\ call.fn = "parseDiffFromRaw"
  /\ call.step = "lines"
  /\ call.i < Len(call.raw)
  /\ call' = [call EXCEPT !.i = @ + 1,
                          !.files = ParseLineOf(@, call.raw[call.i + 1])]
  /\ UNCHANGED <<wfVars, fmt>>

\* for (const f of files) for (const h of f.hunks) h.hash = ...; return files
HashHunks ==
  /\ call.fn = "parseDiffFromRaw"
  /\ call.step = "lines"
  /\ call.i = Len(call.raw)
  /\ call' = [call EXCEPT !.step = "returned",
                          !.files = [k \in 1..Len(@) |-> HashHunksOf(@[k])]]
  /\ UNCHANGED <<wfVars, fmt>>

(***************************************************************************)
(* prompt.ts: the summary of the parsed diff and the messages built from   *)
(* it.  A text is a sequence of pieces: Txt for characters, Dig for the    *)
(* eight characters of a hash.                                             *)
(***************************************************************************)

Txt(s) == [txt |-> s]

Dig(hash) == [digest |-> hash]

\* the pieces of a path, a label or a line
TxtAll(pieces) == [k \in 1..Len(pieces) |-> Txt(pieces[k])]

\* a number in a template literal
TxtNum(n) == Txt(ToString(n))

RECURSIVE Join(_, _)
\* texts.join(sep)
Join(texts, sep) ==
  IF texts = <<>> THEN <<>>
  ELSE IF Len(texts) = 1 THEN texts[1]
  ELSE texts[1] \o <<sep>> \o Join(Tail(texts), sep)

LineBreak == Txt("NL")

\* privacy high: one line per file
HighLine(f) ==
  <<Txt("file: ")>> \o TxtAll(f.file)
    \o <<Txt(" (+"), TxtNum(f.additions), Txt(" -"), TxtNum(f.deletions),
         Txt(") hunks:"), TxtNum(Len(f.hunks))>>

\* privacy medium: one line per hunk
MediumHunk(h) ==
  <<Txt("  hunk "), Dig(h.hash), Txt(" context:")>> \o TxtAll(h.functionContext)
    \o <<Txt(" +"), TxtNum(h.added), Txt(" -"), TxtNum(h.removed)>>

MediumFile(f) ==
  <<Txt("file: ")>> \o TxtAll(f.file) \o <<LineBreak>>
    \o Join([k \in 1..Len(f.hunks) |-> MediumHunk(f.hunks[k])], LineBreak)

\* h.lines.slice(0, 40)
SliceLimit == 40

\* privacy low: the header and the first lines of each hunk
LowHunk(h) ==
  TxtAll(h.header) \o <<LineBreak>>
    \o Join([k \in 1..Min(Len(h.lines), SliceLimit) |-> TxtAll(h.lines[k])],
            LineBreak)
    \o (IF Len(h.lines) > SliceLimit
        THEN <<LineBreak, Txt("[truncated]")>> ELSE <<>>)

LowFile(f) ==
  <<Txt("file: ")>> \o TxtAll(f.file) \o <<LineBreak>>
    \o Join([k \in 1..Len(f.hunks) |-> LowHunk(f.hunks[k])], LineBreak)

Privacies == {"low", "medium", "high"}

\* summarizeDiffForPrompt with medium treated as low: the hunks are copied
summarizeDiffVerbatim(files, privacy) ==
  IF privacy = "high"
  THEN Join([k \in 1..Len(files) |-> HighLine(files[k])], LineBreak)
  ELSE Join([k \in 1..Len(files) |-> LowFile(files[k])], LineBreak)

summarizeDiffForPrompt(files, privacy) ==
  IF privacy = "high"
  THEN Join([k \in 1..Len(files) |-> HighLine(files[k])], LineBreak)
  ELSE IF privacy = "medium"
  THEN Join([k \in 1..Len(files) |-> MediumFile(files[k])], LineBreak)
  ELSE Join([k \in 1..Len(files) |-> LowFile(files[k])], LineBreak)

\* AppConfig as the callers hand it over: loadConfig sets style and leaves
\* gitmoji undefined, the --gitmoji flags set gitmoji
PromptConfigs ==
  {[style |-> m, gitmoji |-> FALSE, privacy |-> p] : m \in Modes, p \in Privacies}
    \cup {[style |-> "standard", gitmoji |-> TRUE, privacy |-> p] : p \in Privacies}

Rule(name, text) == [rule |-> name, text |-> text]

\* the line Emoji Rule of specLines
EmojiRule(cfg) ==
  Rule("Emoji Rule",
       IF cfg.gitmoji
       THEN "OPTIONAL single leading gitmoji BEFORE the type only if confidently adds clarity; do not invent or stack; omit if unsure."
       ELSE "Disallow all emojis and gitmoji codes; output must start directly with the type.")

\* specLines
SpecLines(cfg) ==
  <<Rule("Purpose", "Generate high-quality Conventional Commit messages for the provided git diff."),
    Rule("Locale", "en"),
    Rule("Output JSON Schema", "commits, meta"),
    Rule("Primary Output Field", "commits[ ].title"),
    Rule("Title Format", "<type>(<optional-scope>): <subject>"),
    Rule("Max Title Length", "72 characters (hard limit)"),
    Rule("Types", "(JSON mapping follows on next line)"),
    Rule("TypeMap", "JSON.stringify(TYPE_MAP)"),
    Rule("Scope Rules", "optional; if present, lowercase kebab-case; omit when unclear."),
    Rule("Subject Rules", "imperative mood, present tense, no leading capital unless proper noun, no trailing period."),
    Rule("Length Rule", "Entire title line (including type/scope) must be <= 72 chars."),
    EmojiRule(cfg),
    Rule("Forbidden", "breaking changes notation"),
    Rule("Fallback Type", "use chore when no other type clearly fits."),
    Rule("Consistency", "prefer existing top prefixes"),
    Rule("Provide score", "(0-100)"),
    Rule("Provide reasons", "array citing concrete diff elements"),
    Rule("When mode is split", "add a files array per commit"),
    Rule("Return ONLY the JSON object", "No surrounding text or markdown."),
    Rule("Do not add fields", "not listed in schema."),
    Rule("Never fabricate content", "not present or implied by the diff."),
    Rule("If mode is split", "set meta.splitRecommended=true.")>>

PromptModes == {"single", "split"}

\* desiredCommits || (mode === 'split' ? '2-6' : 1), desiredCommits not given
RequestedCommitCount(mode) == IF mode = "split" THEN "2-6" ELSE "1"

buildGenerationMessages(files, cfg, mode) ==
  <<[role |-> "system", content |-> SpecLines(cfg)],
    [role |-> "user",
     content |-> [mode |-> mode,
                  requested |-> RequestedCommitCount(mode),
                  fingerprint |-> "JSON.stringify(style)",
                  diff |-> summarizeDiffForPrompt(files, cfg.privacy)]]>>

\* summarizeDiffForPrompt(files, privacy) on the files parseDiffFromRaw
\* returned
Summarize ==
  /\ call.fn = "parseDiffFromRaw"
  /\ call.step = "returned"
  /\ \E privacy \in Privacies :
       call' = [fn |-> "summarizeDiffForPrompt", step |-> "summarized",
                raw |-> call.raw, files |-> call.files, privacy |-> privacy,
                summary |-> summarizeDiffForPrompt(call.files, privacy)]
  /\ UNCHANGED <<wfVars, fmt>>

\* buildGenerationMessages({files, style, config, mode})
BuildMessages ==
  /\ call.fn = "parseDiffFromRaw"
  /\ call.step = "returned"
  /\ \E cfg \in PromptConfigs, mode \in PromptModes :
       call' = [fn |-> "buildGenerationMessages", step |-> "built",
                files |-> call.files, config |-> cfg, mode |-> mode,
                messages |-> buildGenerationMessages(call.files, cfg, mode)]
  /\ UNCHANGED <<wfVars, fmt>>

DiffNext ==
  \/ ParseStart
  \/ ParseLine
  \/ HashHunks
  \/ Summarize
  \/ BuildMessages

SpecDiff == DiffInit /\ [][DiffNext]_vars

(***************************************************************************)
(* provider.ts: extractJSON on its own, and what the callers print when it *)
(* throws.                                                                 *)
(***************************************************************************)

\* commit objects the schema rejects: the title 5 of the test (with no
\* score), a title of 3 and one of 151 characters, scores of 101 and of -1
BadWires ==
  {[title |-> JNum(5), body |-> JMissing, score |-> JMissing, files |-> {}],
   [title |-> JStr(<<"f", "i", "x">>), body |-> JStr(""), score |-> JNum(90),
    files |-> {}],
   [title |-> JStr([i \in 1..(TitleMax + 1) |-> "a"]), body |-> JStr(""),
    score |-> JNum(90), files |-> {}],
   [title |-> JStr(TitleFeat), body |-> JStr(""), score |-> JNum(ScoreMax + 1),
    files |-> {}],
   [title |-> JStr(TitleFeat), body |-> JMissing, score |-> JNum(ScoreMin - 1),
    files |-> {}]}

GoodWires == {Wire(c) : c \in ModelCandidates}

\* lists of commit objects with a rejected one, and the empty list
BadWireSeqs ==
  {<<>>} \cup {<<b>> : b \in BadWires}
    \cup {<<g, b>> : g \in GoodWires, b \in BadWires}
    \cup {<<b, g>> : g \in GoodWires, b \in BadWires}

NoPlan == [commits |-> <<>>]

\* the JSON object of the output, if any: kind says what it is
JsonBodies ==
  {[kind |-> "valid", json |-> Compact(WireOfPlan(p)), plan |-> p] : p \in Plans}
    \cup {[kind |-> "valid", json |-> Pretty(WireOfPlan(p)), plan |-> p] : p \in Plans}
    \cup {[kind |-> "schema", json |-> Compact(ws), plan |-> NoPlan] : ws \in BadWireSeqs}
    \cup {[kind |-> "schema", json |-> Pretty(ws), plan |-> NoPlan] : ws \in BadWireSeqs}
    \cup {[kind |-> "schema", json |-> <<LB, RB>>, plan |-> NoPlan]}
    \cup {[kind |-> "syntax", json |-> t, plan |-> NoPlan] :
            t \in {<<LB, Prose, RB>>, <<LB, KeyCommits, LSQ, LB, RB>>,
                   <<LB, KeyCommits, LSQ, RSQ, COMMA, RB>>}}
    \cup {[kind |-> "none", json |-> t, plan |-> NoPlan] :
            t \in {<<>>, <<Prose>>, <<LSQ, Prose, RSQ>>}}

\* text before the object: none, a line of prose, a fence, words on the line
\* of the opening brace, prose that has braces of its own
Prefaces ==
  {<<>>, <<Prose, NL>>, <<Fence, NL>>, <<Prose, SP>>, <<Prose, LB, Prose, RB, NL>>}

\* text after the object: none, a newline, prose or a fence on later lines,
\* words on the line of the closing brace
Trailings ==
  {<<>>, <<NL>>, <<NL, Prose>>, <<NL, Fence>>, <<NL, Prose, NL>>, <<SP, Prose>>,
   <<Fence>>}

JsonInputs ==
  {[fn |-> "extractJSON", step |-> "start", preface |-> pre0, body |-> b,
    trailing |-> post, raw |-> pre0 \o b.json \o post, result |-> NoPlan,
    caller |-> "none", report |-> <<>>] :
     pre0 \in Prefaces, b \in JsonBodies, post \in Trailings}

JsonInit ==
  /\ WorkflowInit
  /\ fmt = FmtIdle
  /\ call \in JsonInputs

\* extractJSON(raw)
ExtractJSON ==
  /\ call.fn = "extractJSON"
  /\ call.step = "start"
  /\ call' = [call EXCEPT
                !.step = IF Threw(extractJSON(call.raw)) THEN "thrown" ELSE "returned",
                !.result = extractJSON(call.raw)]
  /\ UNCHANGED <<wfVars, fmt>>

Callers == {"generate", "split"}

\* the line the caller prints: runStep and phased.step in runGenerate, the
\* catch in runSplit
ParseFailureReport(caller, message) ==
  [line |-> IF caller = "split"
            THEN "JSON parse error: "
            ELSE "Parsing response failed: ",
   message |-> message]

ReportFailure ==
  /\ call.fn = "extractJSON"
  /\ call.step = "thrown"
  /\ \E caller \in Callers :
       call' = [call EXCEPT
                  !.step = "reported",
                  !.caller = caller,
                  !.report = ParseFailureReport(caller, call.result.thrown)]
  /\ UNCHANGED <<wfVars, fmt>>

JsonNext ==
  \/ ExtractJSON
  \/ ReportFailure

SpecJson == JsonInit /\ [][JsonNext]_vars

(***************************************************************************)
(* The claims.  pre is what the run found when it started: the session     *)
(* file, the length of the commit log and the index.                       *)
(***************************************************************************)

\* the commits the running command has created
OwnCommits == (pre.ncommits + 1)..Len(commits)

AllListedFiles == UNION {candidates[i].files : i \in 1..Len(candidates)}

\* the listed assignments are unusable: a candidate lists no file, or a
\* listed file is not staged
FallbackCase ==
  \/ \E i \in 1..Len(candidates) : candidates[i].files = {}
  \/ ~(AllListedFiles \subseteq pre.staged)

\* non-empty, pairwise disjoint file lists that together cover the index
Partitioned ==
  /\ \A i \in 1..Len(candidates) : candidates[i].files # {}
  /\ \A i, j \in 1..Len(candidates) :
       i # j => candidates[i].files \cap candidates[j].files = {}
  /\ AllListedFiles = pre.staged

\* C1: in split, once the user has accepted, every commit the run creates
\* holds only the files of its own candidate, and N candidates whose file
\* lists partition the staged set give exactly N commits, each with exactly
\* its files.  Stated for usable file lists (C2 has the others) and, for the
\* count, for runs that skipped no candidate.
C1_SplitCommitsOwnFiles ==
  (cmd = "split" /\ pc \in {"split loop", "done"} /\ ~FallbackCase) =>
    /\ \A k \in OwnCommits :
         commits[k].files \subseteq At(candidates, commits[k].by).files
    /\ (pc = "done" /\ outcome = "completed" /\ Partitioned
          /\ skipped = {}) =>
         /\ Len(commits) - pre.ncommits = Len(candidates)
         /\ \A i \in 1..Len(candidates) :
              commits[pre.ncommits + i].files = candidates[i].files

\* the place of f in the list of staged files (git lists them sorted)
StagedIndex(f) == Cardinality({g \in pre.staged : g = "a.ts" /\ f = "b.ts"})

\* C2: in split, when an accepted candidate lists no file or a listed file
\* is not staged, staged file number i goes to candidate number i mod N:
\* every staged file is committed by exactly that one candidate.  Stated for
\* runs that skipped no candidate.
C2_RoundRobinFallback ==
  (cmd = "split" /\ pc = "done" /\ outcome = "completed" /\ FallbackCase
     /\ skipped = {}) =>
    \A f \in pre.staged :
      \E k \in OwnCommits :
        /\ f \in commits[k].files
        /\ commits[k].by = StagedIndex(f) % Len(candidates)
        /\ \A j \in OwnCommits : f \in commits[j].files => j = k

\* how a run ends when nothing was accepted
NotAccepted ==
  {"cancelled", "no staged changes", "no diff content", "provider error",
   "parse error"}

\* C3: in the split loop a failure of createCommit is caught: the later
\* candidates are still attempted and the run ends normally, saving the
\* session.
C3_CommitFailureIsSkipped ==
  (cmd = "split" /\ pc = "done" /\ outcome \notin NotAccepted) =>
    /\ outcome = "completed"
    /\ cursor = Len(candidates)
    /\ session = [plan |-> plan, chosen |-> candidates, mode |-> "split"]

\* C4: in generate and in split the errors of checkCandidate and of the
\* plugins never block: they have been shown before the confirmation, and
\* once the user has confirmed the candidate that has them is committed.
C4_ErrorsWarnNeverBlock ==
  [][/\ (cmd = "generate" /\ pc = "gen confirm" /\ outcome' = "completed"
           /\ errors # <<>>) =>
          (warned = errors /\ Len(commits') = Len(commits) + 1)
     /\ (cmd = "split" /\ pc = "split loop" /\ staged # {}
           /\ errors' # <<>>) =>
          (warned = errors' /\ Len(commits') = Len(commits) + 1)]_vars

\* C5: a generate, split or refine run that ends on No at the prompt, on no
\* staged changes, on an empty diff, on a provider error or on a parse error
\* has created no commit and has left the session file as it found it.
C5_NoEffectWithoutAcceptance ==
  (pc = "done" /\ outcome \in NotAccepted) =>
    /\ Len(commits) = pre.ncommits
    /\ session = pre.session

\* a split run that follows a completed run is cancelled at the prompt
C5_CancelledAfterCompletedRun ==
  /\ pc = "done"
  /\ cmd = "split"
  /\ outcome = "cancelled"
  /\ pre.ncommits > 0
  /\ pre.session # NoSession

\* C6: a generate or split run that completes leaves in the session file
\* exactly the snapshot of that run: its plan, its chosen candidate(s) and
\* its mode, single for generate and split for split, whatever the file
\* held before.
C6_SessionIsSnapshotOfCompletedRun ==
  (pc = "done" /\ outcome = "completed") =>
    /\ cmd = "generate" =>
         session = [plan |-> plan, chosen |-> candidates[1], mode |-> "single"]
    /\ cmd = "split" =>
         session = [plan |-> plan, chosen |-> candidates, mode |-> "split"]

\* a split run completes over the session file of another plan
C6_CompletedOverOlderSession ==
  /\ pc = "done"
  /\ cmd = "split"
  /\ outcome = "completed"
  /\ pre.session # NoSession
  /\ pre.session.plan # plan

\* the index the user gave with --index, 0 without the flag
RequestedIndex == IF options.index = Undefined THEN 0 ELSE options.index[1]

\* C7: refine addresses plan.commits by a 0-based index that defaults to 0
\* (index 1 is the second commit); with no commit at that index the run ends
\* with Invalid index, without a model call and without a change of the
\* session.
C7_RefineIndexIsZeroBased ==
  (cmd = "refine" /\ outcome # "no session") =>
    /\ cursor = RequestedIndex
    /\ (outcome = "invalid index") <=>
         ~Has(pre.session.plan.commits, RequestedIndex)
    /\ outcome = "invalid index" =>
         (session = pre.session /\ candidates = <<>>)

\* C8: refine creates no commit; after the user has accepted, the session
\* file holds the refined commit at the selected index and is otherwise as
\* before; after a rejection it is as before.
C8_RefinePersistsAcceptedCommit ==
  (cmd = "refine" /\ pc = "done") =>
    /\ Len(commits) = pre.ncommits
    /\ outcome = "completed" =>
         session = [pre.session EXCEPT !.plan.commits[cursor + 1] = candidates[1]]
    /\ outcome = "cancelled" => session = pre.session

\* C9: in standard mode, with allowGitmoji either way, formatting the
\* formatted title again gives the formatted title.
C9_FormatIsIdempotentInStandardMode ==
  (fmt.step = "twice" /\ fmt.mode = "standard") => fmt.twice = fmt.once

\* the emoji of the 14-entry table, the wrench for any other type
TableEmoji(type) ==
  IF \E ct \in ConventionalTypes : Str(ct) = type
  THEN EMOJI_MAP[CHOOSE ct \in ConventionalTypes : Str(ct) = type]
  ELSE <<"WRENCH">>

\* C10: with allowGitmoji, a title <type>[(<scope>)]: <subject> that has no
\* leading emoji becomes <E> <type>[(<scope>)]: <subject> in mode gitmoji and
\* <E>: <subject> in mode gitmoji-pure, E being the emoji of the table for the
\* type, or the wrench.
\* Stated for the titles of Forms, which the normaliser leaves as they are.
C10_TypedTitleGetsTableEmoji ==
  (fmt.step = "once" /\ fmt.form # NoForm /\ fmt.allow) =>
    /\ fmt.mode = "gitmoji" =>
         fmt.once = TableEmoji(fmt.form.type) \o <<" ">> \o fmt.raw
    /\ fmt.mode = "gitmoji-pure" =>
         fmt.once = TableEmoji(fmt.form.type) \o <<":", " ">> \o fmt.form.subject

\* C11: with allowGitmoji, a title <emoji> <type>[(<scope>)]: <subject> in
\* normal form keeps its emoji, for any one emoji glyph and so for the glyphs
\* of the type table: mode gitmoji returns the title unchanged and mode
\* gitmoji-pure returns <emoji>: <subject>.
C11_EmojiTitleKeepsItsEmoji ==
  (fmt.step = "once" /\ fmt.lead # <<>> /\ fmt.allow) =>
    /\ fmt.mode = "gitmoji" => fmt.once = fmt.raw
    /\ fmt.mode = "gitmoji-pure" =>
         fmt.once = fmt.lead[1] \o <<":", " ">> \o fmt.lead[2].subject

\* a title with no recognizable type: plain text that starts with a word
\* character and does not read <type>[(<scope>)]: <subject>
Untyped(raw) ==
  /\ raw = Trim(raw)
  /\ IsWord(Head(raw))
  /\ ~TypeMatch(raw).ok
  /\ ~LooseScopeTest(raw)

\* C12: with allowGitmoji and mode gitmoji or gitmoji-pure the formatted
\* title begins with an emoji glyph, whatever the input; a title with no
\* recognizable type gets the wrench: <wrench> chore: <text> in mode gitmoji
\* and <wrench>: <text> in mode gitmoji-pure, <text> being the title with its
\* first character in lower case and without its trailing period.
C12_GitmojiModesLeadWithGlyph ==
  (fmt.step = "once" /\ fmt.allow /\ fmt.mode \in {"gitmoji", "gitmoji-pure"}) =>
    /\ Head(fmt.once) \in Pictographs
    /\ (fmt.mode = "gitmoji" /\ Untyped(fmt.raw)) =>
         fmt.once = <<"WRENCH", " ">> \o Str("chore") \o <<":", " ">>
                      \o LowerFirst(StripTrailingPeriod(fmt.raw))
    /\ (fmt.mode = "gitmoji-pure" /\ Untyped(fmt.raw)) =>
         fmt.once = <<"WRENCH", ":", " ">>
                      \o LowerFirst(StripTrailingPeriod(fmt.raw))

\* the first leading emoji glyph and one space, when the title begins with
\* an emoji
LeadOf(title) ==
  IF title # <<>> /\ IsEmojiSym(Head(title)) THEN <<Head(title), " ">> ELSE <<>>

\* the text left after the leading emoji, symbols and punctuation
TextLeft(title) == Trim(StripLeadingClusters(Trim(title)))

\* <type lowercased>[(<scope>)]: <subject without its trailing period, first
\* character lowercased>
Canonical(m) ==
  ToLowerCase(m.type) \o m.scope \o <<":", " ">>
    \o LowerFirst(StripTrailingPeriod(m.subject))

\* C13: normalizeConventionalTitle returns, when the text left after the
\* leading emoji, symbols and punctuation reads <type>[(<scope>)]: <subject>,
\* the lowercased type, the scope as it is and the subject without its
\* trailing period and with its first character lowercased; for any other
\* text, chore: and the text with its first character lowercased and without
\* its trailing period; in both cases after the first leading emoji and one
\* space when the title began with an emoji.
C13_NormalizeIsTypedOrChore ==
  fmt.step = "normalized" =>
    fmt.once =
      LeadOf(Trim(fmt.raw)) \o
        (IF TypeMatch(TextLeft(fmt.raw)).ok
         THEN Canonical(TypeMatch(TextLeft(fmt.raw)))
         ELSE Str("chore") \o <<":", " ">>
                \o LowerFirst(StripTrailingPeriod(TextLeft(fmt.raw))))

\* the types of the fixed list, as text
ListedTypes == {Str(ct) : ct \in ConventionalTypes}

\* <type>[(<scope>)]: <subject> with a type of the fixed list
ListedTyped(t) == TypeMatch(t).ok /\ TypeMatch(t).type \in ListedTypes

\* the title begins <type>[(<scope>)]: , <emoji> <type>[(<scope>)]: or
\* <emoji>:
ConventionalPrefix(title) ==
  \/ ListedTyped(title)
  \/ /\ PrefixLen(title, "symbol") >= 1
     /\ \/ ListedTyped(TrimStart(Drop(title, PrefixLen(title, "symbol"))))
              /\ PrefixLen(Drop(title, PrefixLen(title, "symbol")), "space") >= 1
        \/ /\ Len(title) > PrefixLen(title, "symbol")
           /\ title[PrefixLen(title, "symbol") + 1] = ":"

\* <emoji>: <subject> or <emoji> <type>[(<scope>)]: <subject>, the type in
\* the fixed list
EmojiTitle ==
  \/ fmt.raw \in PureTitles
  \/ fmt.lead # <<>> /\ fmt.lead[2].type \in ListedTypes

\* C14: checkCandidate returns an error for every title that has no
\* conventional prefix, no error for a title <emoji>: <subject> or
\* <emoji> <type>[(<scope>)]: <subject> with a type of the fixed list and a
\* body without a secret, and never an error about the length of the title.
C14_CheckCandidateErrors ==
  fmt.step = "checked" =>
    /\ ~ConventionalPrefix(fmt.raw) => fmt.once # <<>>
    /\ (EmojiTitle /\ ~SECRET_PATTERNS(fmt.body)) => fmt.once = <<>>
    /\ \A i \in 1..Len(fmt.once) :
         fmt.once[i] \in {"Not a valid conventional commit title.",
                          "Potential secret detected."}

RECURSIVE SumAdded(_)
\* the sum of the added counts of the hunks
SumAdded(hunks) ==
  IF hunks = <<>> THEN 0 ELSE Head(hunks).added + SumAdded(Tail(hunks))

RECURSIVE SumRemoved(_)
\* the sum of the removed counts of the hunks
SumRemoved(hunks) ==
  IF hunks = <<>> THEN 0 ELSE Head(hunks).removed + SumRemoved(Tail(hunks))

\* C15: in every FileDiff parseDiffFromRaw returns, additions is the sum of
\* the added counts of its hunks and deletions the sum of their removed
\* counts.
C15_CountsAreSumsOverHunks ==
  (call.fn = "parseDiffFromRaw" /\ call.step = "returned") =>
    \A k \in 1..Len(call.files) :
      /\ call.files[k].additions = SumAdded(call.files[k].hunks)
      /\ call.files[k].deletions = SumRemoved(call.files[k].hunks)

\* the diff is one file section for path, with one valid hunk header at line
\* k and only added lines after it
OneAddedFile(raw, path, k) ==
  /\ raw[1] = FileLine(path)
  /\ \A i \in 2..(k - 1) : raw[i] \in {IndexLine, OldMarker, NewMarker}
  /\ raw[k] \in {HeaderNew, HeaderEdit, HeaderShort}
  /\ k < Len(raw)
  /\ \A i \in (k + 1)..Len(raw) : StartsWith(raw[i], <<"+">>)

\* C16: for a diff of one file section with one valid hunk header followed
\* by added lines, parseDiffFromRaw returns one FileDiff with the path of
\* the file and one hunk, additions the number of lines that begin with "+"
\* (none of them is the +++ file marker), deletions 0 and a hash of 8 hex
\* characters.
C16_OneAddedFileIsOneFileDiff ==
  (call.fn = "parseDiffFromRaw" /\ call.step = "returned") =>
    \A path \in {PathX, PathSpaced} :
      \A k \in 2..Len(call.raw) :
        OneAddedFile(call.raw, path, k) =>
          /\ Len(call.files) = 1
          /\ call.files[1].file = path
          /\ Len(call.files[1].hunks) = 1
          /\ call.files[1].additions = Len(call.raw) - k
          /\ call.files[1].deletions = 0
          /\ call.files[1].hunks[1].hash.length = 8

\* C17: extractJSON returns the plan for every output made of preface text,
\* one JSON object that is valid against the plan schema, and trailing text,
\* be the trailing text on the line of the closing brace or on later lines.
C17_PlanFoundInsideProse ==
  (call.fn = "extractJSON" /\ call.step # "start" /\ call.body.kind = "valid") =>
    call.result = call.body.plan

\* the object stands by itself: no braces in the text before it, nothing
\* after it on the line of its closing brace
FramedApart ==
  /\ \A i \in 1..Len(call.preface) : call.preface[i] \notin {LB, RB}
  /\ call.trailing = <<>> \/ call.trailing[1] = NL

\* the message for each reason
ReasonMessage(kind) ==
  CASE kind = "none" -> "No JSON object detected."
    [] kind = "syntax" -> "Invalid JSON parse"
    [] kind = "schema" -> ZodIssues
    [] OTHER -> "none"

BadKinds == {"none", "syntax", "schema"}

Content(line) == IF line = <<>> THEN <<>> ELSE Tail(line)

\* the texts of the hunk lines of the files, the empty one left out
HunkTexts(files) ==
  {Content(files[f].hunks[h].lines[l]) :
     <<f, h, l>> \in {t \in (1..Len(files)) \X (1..MaxLines) \X (1..MaxLines) :
                        /\ t[2] <= Len(files[t[1]].hunks)
                        /\ t[3] <= Len(files[t[1]].hunks[t[2]].lines)}}
    \ {<<>>}

\* text stands in summary, piece after piece
Occurs(text, summary) ==
  \E i \in 1..(Len(summary) - Len(text) + 1) :
    \A k \in 1..Len(text) : summary[i + k - 1] = Txt(text[k])

\* the hunks with nothing left but their number
CountOnly(f) ==
  [f EXCEPT !.hunks = [k \in 1..Len(f.hunks) |->
                         [file |-> <<>>, header |-> <<>>, from |-> 0, to |-> 0,
                          added |-> 0, removed |-> 0, lines |-> <<>>,
                          hash |-> NoHash, functionContext |-> Undefined]]]

\* the hunks without their lines, their header and their line numbers
LinesDropped(f) ==
  [f EXCEPT !.hunks = [k \in 1..Len(f.hunks) |->
                         [f.hunks[k] EXCEPT !.header = <<>>, !.lines = <<>>,
                                            !.from = 0, !.to = 0]]]

\* the summary is the one of the files with the hunk lines taken away
SameWithoutLines(files, privacy, summary) ==
  /\ privacy = "high" =>
       summary = summarizeDiffForPrompt(
                   [k \in 1..Len(files) |-> CountOnly(files[k])], "high")
  /\ privacy = "medium" =>
       summary = summarizeDiffForPrompt(
                   [k \in 1..Len(files) |-> LinesDropped(files[k])], "medium")

\* C19: under privacy high and medium the summary of summarizeDiffForPrompt
\* contains no code content: it is made of the file paths, the counts, the
\* hunk hashes and the function-context labels, so no text of any hunk line
\* appears in it.
C19_NoHunkTextInSummary ==
  (call.fn = "summarizeDiffForPrompt" /\ call.privacy \in {"high", "medium"}) =>
    /\ SameWithoutLines(call.files, call.privacy, call.summary)
    /\ \A text \in HunkTexts(call.files) : ~Occurs(text, call.summary)

\* C19, amended: under privacy high and medium the summary is computed from
\* the paths, the counts, the hunk hashes and the function-context labels
\* alone: it is the summary of the same files with every hunk line, hunk
\* header and line number removed (under high, with every hunk emptied).
C19_SummaryIgnoresHunkLines ==
  (call.fn = "summarizeDiffForPrompt" /\ call.privacy \in {"high", "medium"}) =>
    SameWithoutLines(call.files, call.privacy, call.summary)

\* the medium summary of a file with a labelled hunk of two lines, which the
\* low summary would copy
C19_MediumSummaryOfChangedHunk ==
  /\ call.fn = "summarizeDiffForPrompt"
  /\ call.privacy = "medium"
  /\ Len(call.files) = 1
  /\ Len(call.files[1].hunks) = 1
  /\ call.files[1].hunks[1].functionContext # Undefined
  /\ Len(call.files[1].hunks[1].lines) = 2
  /\ call.summary # summarizeDiffForPrompt(call.files, "low")
  /\ call.summary # <<>>

\* the emoji rules among the lines of a system message
EmojiRulesOf(lines) == {k \in 1..Len(lines) : lines[k].rule = "Emoji Rule"}

OptionalGitmoji ==
  "OPTIONAL single leading gitmoji BEFORE the type only if confidently adds clarity; do not invent or stack; omit if unsure."

DisallowEmojis ==
  "Disallow all emojis and gitmoji codes; output must start directly with the type."

\* C20: the system message of buildGenerationMessages contains exactly one
\* emoji rule: the OPTIONAL single leading gitmoji rule when the style of the
\* configuration is gitmoji or gitmoji-pure, the Disallow all emojis rule
\* when the style is standard (and no gitmoji flag was given).
C20_EmojiRuleFollowsStyle ==
  call.fn = "buildGenerationMessages" =>
    /\ call.messages[1].role = "system"
    /\ Cardinality(EmojiRulesOf(call.messages[1].content)) = 1
    /\ \A k \in EmojiRulesOf(call.messages[1].content) :
         /\ call.config.style \in {"gitmoji", "gitmoji-pure"} =>
              call.messages[1].content[k].text = OptionalGitmoji
         /\ (call.config.style = "standard" /\ ~call.config.gitmoji) =>
              call.messages[1].content[k].text = DisallowEmojis

(***************************************************************************)
(* config.ts: buildStyleProfile.  The numbers of the profile are IEEE 754  *)
(* doubles: a double is its 53 mantissa bits, first bit 1, and the         *)
(* exponent of the last bit; its value is mantissa * 2^e.  Divisions and   *)
(* products round to the nearest double, ties to the even mantissa.        *)
(***************************************************************************)

\* the mantissa bits of a double
Precision == 53

RECURSIVE Pow2(_)
Pow2(k) == IF k = 0 THEN 1 ELSE 2 * Pow2(k - 1)

RECURSIVE Zeros(_)
Zeros(k) == IF k = 0 THEN <<>> ELSE <<0>> \o Zeros(k - 1)

Zero == [m |-> Zeros(Precision), e |-> 0]

\* 2^e * n <= s, for the exponents of a quotient of two counts
ScaledBelow(s, n, e) == IF e >= 0 THEN n * Pow2(e) <= s ELSE n <= s * Pow2(0 - e)

\* floor(log2(s / n)), s and n below 2^12
Exponents == (0 - 12)..12

QuotientExponent(s, n) ==
  CHOOSE e \in Exponents :
    /\ ScaledBelow(s, n, e)
    /\ e + 1 \in Exponents => ~ScaledBelow(s, n, e + 1)

RECURSIVE QuotientBits(_, _, _)
\* the next count bits of r / d, r < d
QuotientBits(r, d, count) ==
  IF count = 0 THEN <<>>
  ELSE IF 2 * r >= d THEN <<1>> \o QuotientBits(2 * r - d, d, count - 1)
  ELSE <<0>> \o QuotientBits(2 * r, d, count - 1)

RECURSIVE RemainderAfter(_, _, _)
\* what is left of r after count bits
RemainderAfter(r, d, count) ==
  IF count = 0 THEN r
  ELSE IF 2 * r >= d THEN RemainderAfter(2 * r - d, d, count - 1)
  ELSE RemainderAfter(2 * r, d, count - 1)

RECURSIVE Increment(_)
\* bits + 1, one bit longer when every bit was 1
Increment(bits) ==
  IF bits = <<>> THEN <<1>>
  ELSE IF bits[Len(bits)] = 0 THEN SubSeq(bits, 1, Len(bits) - 1) \o <<1>>
  ELSE Increment(SubSeq(bits, 1, Len(bits) - 1)) \o <<0>>

\* the double of the bits, which may have one bit too many after a carry
Normalized(bits, e) ==
  IF Len(bits) > Precision
  THEN [m |-> SubSeq(bits, 1, Precision), e |-> e + 1]
  ELSE [m |-> bits, e |-> e]

\* round to nearest, ties to even
Rounded(bits, e, up) == IF up THEN Normalized(Increment(bits), e) ELSE [m |-> bits, e |-> e]

\* the quotient bits of num / den in [1, 2), rounded by the remainder
DivideScaled(num, den, e) ==
  Rounded(<<1>> \o QuotientBits(num - den, den, Precision - 1), e - (Precision - 1),
          \/ 2 * RemainderAfter(num - den, den, Precision - 1) > den
          \/ /\ 2 * RemainderAfter(num - den, den, Precision - 1) = den
             /\ QuotientBits(num - den, den, Precision - 1)[Precision - 1] = 1)

DivideAt(s, n, e) ==
  IF e >= 0 THEN DivideScaled(s, n * Pow2(e), e) ELSE DivideScaled(s * Pow2(0 - e), n, e)

\* s / n on doubles holding the integers s >= 0 and n >= 1
Divide(s, n) == IF s = 0 THEN Zero ELSE DivideAt(s, n, QuotientExponent(s, n))

RECURSIVE BitsOf(_)
\* the binary digits of an integer, none for 0
BitsOf(k) == IF k = 0 THEN <<>> ELSE BitsOf(k \div 2) \o <<k % 2>>

RECURSIVE TimesFrom(_, _, _)
\* bits * n + carry, exactly
TimesFrom(bits, n, carry) ==
  IF bits = <<>> THEN BitsOf(carry)
  ELSE TimesFrom(SubSeq(bits, 1, Len(bits) - 1), n,
                 (bits[Len(bits)] * n + carry) \div 2)
         \o <<(bits[Len(bits)] * n + carry) % 2>>

\* the exact product cut to the mantissa and rounded by the bits cut off
RoundProduct(product, e) ==
  Rounded(SubSeq(product, 1, Precision), e + (Len(product) - Precision),
          /\ Len(product) > Precision
          /\ product[Precision + 1] = 1
          /\ \/ product[Precision] = 1
             \/ \E i \in (Precision + 2)..Len(product) : product[i] = 1)

\* x * n for a double x and an integer n >= 1
Times(x, n) == IF x = Zero THEN Zero ELSE RoundProduct(TimesFrom(x.m, n, 0), x.e)

\* the double of an integer
FromInt(k) ==
  IF k = 0 THEN Zero
  ELSE [m |-> BitsOf(k) \o Zeros(Precision - Len(BitsOf(k))),
        e |-> Len(BitsOf(k)) - Precision]

\* the pictographs of U+1F300..U+1FAFF, two UTF-16 units each
AstralPictographs ==
  {"BUG", "BROOM", "MEMO", "ROBOT", "ART", "CRANE", "SHUFFLE", "LOCK", "LABEL",
   "WRENCH"}

RECURSIVE StringLength(_)
\* c.length
StringLength(s) ==
  IF s = <<>> THEN 0
  ELSE (IF Head(s) \in AstralPictographs THEN 2 ELSE 1) + StringLength(Tail(s))

\* the place of the first line break of the message, or past its end
FirstBreak(m) ==
  CHOOSE k \in 1..(Len(m) + 1) :
    /\ \A i \in 1..(k - 1) : m[i] # "NL"
    /\ k <= Len(m) => m[k] = "NL"

\* the message taken whole as its title
WholeMessage(m) == m

\* m.split('\n')[0]
FirstLine(m) == SubSeq(m, 1, FirstBreak(m) - 1)

RECURSIVE SumLengths(_)
\* titles.reduce((a, c) => a + c.length, 0)
SumLengths(titles) ==
  IF titles = <<>> THEN 0 ELSE StringLength(Head(titles)) + SumLengths(Tail(titles))

\* /[\u{1F300}-\u{1FAFF}]/u.test(t)
HasGitmoji(t) == \E i \in 1..Len(t) : t[i] \in AstralPictographs

\* (\(.+\))?: what follows the word or type that ends at k is a scope closed
\* before a colon
ScopeThenColon(t, k) ==
  /\ k + 1 <= Len(t)
  /\ t[k + 1] = "("
  /\ \E j \in (k + 3)..(Len(t) - 1) : t[j] = ")" /\ t[j + 1] = ":"

\* /^\w+\(.+\):/.test(t)
UsesScope(t) == PrefixLen(t, "word") >= 1 /\ ScopeThenColon(t, PrefixLen(t, "word"))

\* the types the profile counts as conventional
ProfileTypes ==
  {"feat", "fix", "chore", "docs", "refactor", "test", "ci", "perf", "style"}

\* (\(.+\))?: followed by a space, after the type that ends at k
ScopeColonSpace(t, k) ==
  \/ k + 2 <= Len(t) /\ t[k + 1] = ":" /\ t[k + 2] = " "
  \/ /\ k + 1 <= Len(t)
     /\ t[k + 1] = "("
     /\ \E j \in (k + 3)..(Len(t) - 2) : t[j] = ")" /\ t[j + 1] = ":" /\ t[j + 2] = " "

\* /^(feat|fix|chore|docs|refactor|test|ci|perf|style)(\(.+\))?: /.test(t)
IsConventional(t) ==
  \E type \in ProfileTypes :
    /\ Len(Str(type)) <= Len(t)
    /\ SubSeq(t, 1, Len(Str(type))) = Str(type)
    /\ ScopeColonSpace(t, Len(Str(type)))

\* t.match(/^(\w+)(\(.+\))?:/)
HasPrefix(t) ==
  /\ PrefixLen(t, "word") >= 1
  /\ \/ PrefixLen(t, "word") + 1 <= Len(t) /\ t[PrefixLen(t, "word") + 1] = ":"
     \/ ScopeThenColon(t, PrefixLen(t, "word"))

\* m[1]
PrefixOf(t) == SubSeq(t, 1, PrefixLen(t, "word"))

RECURSIVE CountOf(_, _)
\* how many of the titles have the prefix
CountOf(titles, p) ==
  IF titles = <<>> THEN 0
  ELSE (IF HasPrefix(Head(titles)) /\ PrefixOf(Head(titles)) = p THEN 1 ELSE 0)
         + CountOf(Tail(titles), p)

RECURSIVE KeysOf(_, _)
\* the keys of the Map prefixes, in the order of their first title
KeysOf(titles, seen) ==
  IF titles = <<>> THEN <<>>
  ELSE IF HasPrefix(Head(titles)) /\ PrefixOf(Head(titles)) \notin seen
  THEN <<PrefixOf(Head(titles))>>
         \o KeysOf(Tail(titles), seen \cup {PrefixOf(Head(titles))})
  ELSE KeysOf(Tail(titles), seen)

\* the entry put before the entries of the sorted list it has no higher
\* count than
RECURSIVE InsertByCount(_, _, _)
InsertByCount(sorted, key, titles) ==
  IF sorted = <<>> THEN <<key>>
  ELSE IF CountOf(titles, Head(sorted)) >= CountOf(titles, key)
  THEN <<Head(sorted)>> \o InsertByCount(Tail(sorted), key, titles)
  ELSE <<key>> \o sorted

RECURSIVE SortByCount(_, _, _)
\* [...prefixes.entries()].sort((a, b) => b[1] - a[1]): stable, highest first
SortByCount(keys, sorted, titles) ==
  IF keys = <<>> THEN sorted
  ELSE SortByCount(Tail(keys), InsertByCount(sorted, Head(keys), titles), titles)

\* the prefixes kept
TopCount == 5

\* .slice(0, 5).map(([k]) => k)
TopPrefixes(titles) ==
  SubSeq(SortByCount(KeysOf(titles, {}), <<>>, titles), 1,
         Min(TopCount, Len(SortByCount(KeysOf(titles, {}), <<>>, titles))))

\* how many titles pass each test
Matching(titles, test) ==
  Cardinality({i \in 1..Len(titles) :
                 CASE test = "gitmoji" -> HasGitmoji(titles[i])
                   [] test = "scope" -> UsesScope(titles[i])
                   [] test = "conventional" -> IsConventional(titles[i])})

\* the length the profile of no history reports
DefaultTitleLength == 50

\* x < y on doubles that are zero or positive
Less(x, y) ==
  IF y = Zero THEN FALSE
  ELSE IF x = Zero THEN TRUE
  ELSE \/ x.e < y.e
       \/ /\ x.e = y.e
          /\ \E i \in 1..Precision :
               /\ x.m[i] < y.m[i]
               /\ \A k \in 1..(i - 1) : x.m[k] = y.m[k]

\* 0.25
Quarter == Divide(1, 4)

Max(a, b) == IF a > b THEN a ELSE b

\* the profile of the titles
ProfileOf(titles) ==
  [tense |-> "imperative",
   avgTitleLength |-> Divide(SumLengths(titles), Max(1, Len(titles))),
   usesScopes |-> Less(Quarter, Divide(Matching(titles, "scope"), Len(titles))),
   gitmojiRatio |-> Divide(Matching(titles, "gitmoji"), Len(titles)),
   topPrefixes |-> TopPrefixes(titles),
   conventionalRatio |-> Divide(Matching(titles, "conventional"), Len(titles))]

buildStyleProfile(messages) ==
  IF Len(messages) = 0
  THEN [tense |-> "imperative",
        avgTitleLength |-> FromInt(DefaultTitleLength),
        usesScopes |-> FALSE,
        gitmojiRatio |-> Zero,
        topPrefixes |-> <<>>,
        conventionalRatio |-> Zero]
  ELSE ProfileOf([i \in 1..Len(messages) |-> FirstLine(messages[i])])

\* ---- the histories the profile is built from ----

MessageCi == <<"c", "i", ":", " ", "a">>

\* a scoped title with a body
MessageScoped ==
  <<"f", "i", "x", "(", "x", ")", ":", " ", "a", "NL", "NL", "b", "o", "d", "y">>

\* a title with a gitmoji and no type
MessageGitmoji == <<"BUG", "a">>

Messages == {MessageCi, MessageScoped, MessageGitmoji}

\* the longest history
MaxMessages == 7

MessageLists == UNION {[1..k -> Messages] : k \in 0..MaxMessages}

StyleInit ==
  /\ WorkflowInit
  /\ config.style = "standard"
  /\ fmt = FmtIdle
  /\ \E messages \in MessageLists :
       call = [fn |-> "buildStyleProfile", step |-> "start", messages |-> messages]

\* buildStyleProfile(messages)
BuildStyleProfile ==
  /\ call.fn = "buildStyleProfile"
  /\ call.step = "start"
  /\ call' = [fn |-> "buildStyleProfile", step |-> "returned",
              messages |-> call.messages,
              profile |-> buildStyleProfile(call.messages)]
  /\ UNCHANGED <<wfVars, fmt>>

StyleNext == BuildStyleProfile

SpecStyle == StyleInit /\ [][StyleNext]_vars


\* the sum of the lengths of the first lines of the messages
TitleLengthSum(messages) ==
  SumLengths([i \in 1..Len(messages) |->
                SubSeq(messages[i], 1, FirstBreak(messages[i]) - 1)])

\* C21: buildStyleProfile returns avgTitleLength exactly 50 for the empty
\* message list, and for every non-empty list an avgTitleLength whose product
\* with the number of messages equals the sum of the lengths of the messages'
\* first lines.
C21_MeanTimesCountIsSum ==
  (call.fn = "buildStyleProfile" /\ call.step = "returned") =>
    IF call.messages = <<>>
    THEN call.profile.avgTitleLength = FromInt(50)
    ELSE Times(call.profile.avgTitleLength, Len(call.messages))
           = FromInt(TitleLengthSum(call.messages))

\* the double x is a nearest one to s / n: the exact product of its mantissa
\* with n is no farther than n / 2 from s at the scale of the mantissa
NearestToQuotient(x, s, n) ==
  IF s = 0 THEN x = Zero
  ELSE /\ x.e <= 0
       /\ \E j \in 0..(n \div 2) :
            \/ TimesFrom(x.m, n, j) = BitsOf(s) \o Zeros(0 - x.e)
            \/ TimesFrom(x.m, n, 0) = TimesFrom(BitsOf(s) \o Zeros(0 - x.e), 1, j)

\* C21, amended: avgTitleLength is exactly 50 for the empty message list; for
\* a non-empty list it is a double nearest to the sum of the lengths of the
\* first lines divided by the number of messages, and its product with that
\* number is the sum whenever the number divides the sum.
C21_MeanIsNearestDouble ==
  (call.fn = "buildStyleProfile" /\ call.step = "returned") =>
    IF call.messages = <<>>
    THEN call.profile.avgTitleLength = FromInt(50)
    ELSE /\ NearestToQuotient(call.profile.avgTitleLength,
                              TitleLengthSum(call.messages), Len(call.messages))
         /\ TitleLengthSum(call.messages) % Len(call.messages) = 0 =>
              Times(call.profile.avgTitleLength, Len(call.messages))
                = FromInt(TitleLengthSum(call.messages))

\* the profile of seven messages, one of them with a body, whose first lines
\* have 29 characters together
C21_SevenTitlesOfTwentyNine ==
  /\ call.fn = "buildStyleProfile"
  /\ call.step = "returned"
  /\ Len(call.messages) = 7
  /\ TitleLengthSum(call.messages) = 29
  /\ \E i \in 1..7 : FirstBreak(call.messages[i]) <= Len(call.messages[i])
  /\ call.profile.avgTitleLength # FromInt(50)

(***************************************************************************)
(* The plugin pipeline: runValidations.                                    *)
(***************************************************************************)

\* what a plugin's validateCandidate does when it is called: it returns
\* nothing, a string or an array of strings, or it throws
Verdicts == {"void", "string", "empty array", "array", "throws"}

\* a plugin: with or without validateCandidate
PluginKinds ==
  {[validates |-> FALSE, verdict |-> "void"]}
    \cup {[validates |-> TRUE, verdict |-> v] : v \in Verdicts}

\* the most plugins registered
MaxPlugins == 3

PluginLists == UNION {[1..k -> PluginKinds] : k \in 0..MaxPlugins}

\* the n-th error string of the plugin at place i
ErrorOf(i, n) == <<i, n>>

\* errors.push(res) for a string, errors.push(...res) for an array
Pushed(errs, i, verdict) ==
  CASE verdict = "string" -> Append(errs, ErrorOf(i, 1))
    [] verdict = "array" -> errs \o <<ErrorOf(i, 1), ErrorOf(i, 2)>>
    [] OTHER -> errs

\* the loop stops at the first error
ValidateOneThenStop(c) ==
  IF c.errors # <<>> THEN [c EXCEPT !.i = Len(c.plugins)]
  ELSE IF ~c.plugins[c.i + 1].validates THEN [c EXCEPT !.i = c.i + 1]
  ELSE IF c.plugins[c.i + 1].verdict = "throws"
  THEN [c EXCEPT !.calls = Append(@, c.i + 1), !.step = "thrown"]
  ELSE [c EXCEPT !.i = c.i + 1,
                 !.calls = Append(@, c.i + 1),
                 !.errors = Pushed(@, c.i + 1, c.plugins[c.i + 1].verdict)]

\* one turn of the loop over the plugins
ValidateOne(c) ==
  IF ~c.plugins[c.i + 1].validates THEN [c EXCEPT !.i = c.i + 1]
  ELSE IF c.plugins[c.i + 1].verdict = "throws"
  THEN [c EXCEPT !.calls = Append(@, c.i + 1), !.step = "thrown"]
  ELSE [c EXCEPT !.i = c.i + 1,
                 !.calls = Append(@, c.i + 1),
                 !.errors = Pushed(@, c.i + 1, c.plugins[c.i + 1].verdict)]

ValidationInit ==
  /\ WorkflowInit
  /\ config.style = "standard"
  /\ fmt = FmtIdle
  /\ \E plugins \in PluginLists :
       call = [fn |-> "runValidations", step |-> "loop", plugins |-> plugins,
               i |-> 0, calls |-> <<>>, errors |-> <<>>]

\* for (const pl of plugins) { ... }
ValidatePlugin ==
  /\ call.fn = "runValidations"
  /\ call.step = "loop"
  /\ call.i < Len(call.plugins)
  /\ call' = ValidateOne(call)
  /\ UNCHANGED <<wfVars, fmt>>

\* return errors
ReturnErrors ==
  /\ call.fn = "runValidations"
  /\ call.step = "loop"
  /\ call.i = Len(call.plugins)
  /\ call' = [call EXCEPT !.step = "returned"]
  /\ UNCHANGED <<wfVars, fmt>>

ValidationNext == ValidatePlugin \/ ReturnErrors

SpecValidation == ValidationInit /\ [][ValidationNext]_vars

\* the plugins that define validateCandidate, in registration order
RECURSIVE Validators(_, _)
Validators(plugins, i) ==
  IF i > Len(plugins) THEN <<>>
  ELSE (IF plugins[i].validates THEN <<i>> ELSE <<>>) \o Validators(plugins, i + 1)

\* the error strings of the plugins, in registration order
RECURSIVE Reported(_, _)
Reported(plugins, i) ==
  IF i > Len(plugins) THEN <<>>
  ELSE (CASE ~plugins[i].validates -> <<>>
          [] plugins[i].verdict = "string" -> <<<<i, 1>>>>
          [] plugins[i].verdict = "array" -> <<<<i, 1>>, <<i, 2>>>>
          [] OTHER -> <<>>)
         \o Reported(plugins, i + 1)

Given(value) == [has |-> TRUE, value |-> value]

\* the field is no key of the layer
NoText == [has |-> FALSE, value |-> ""]

NoList == [has |-> FALSE, value |-> <<>>]

NoFlag == [has |-> FALSE, value |-> FALSE]

ConfigFields == {"model", "style", "plugins", "verbose"}

\* a variable of process.env
EnvUnset == [set |-> FALSE, value |-> ""]

EnvSet(value) == [set |-> TRUE, value |-> value]

\* if (process.env.X): set and not the empty string
Truthy(var) == var.set /\ var.value # ""

Environments ==
  [AICC_MODEL : {EnvUnset, EnvSet(""), EnvSet("env/model-z")},
   AICC_STYLE : {EnvUnset, EnvSet("gitmoji-pure")},
   AICC_VERBOSE : {EnvUnset, EnvSet("true"), EnvSet("false")}]

\* DEFAULTS, which reads the environment too
DEFAULTS(env) ==
  [model |-> Given(IF Truthy(env.AICC_MODEL) THEN env.AICC_MODEL.value
                   ELSE "github-copilot/gpt-4.1"),
   style |-> Given(IF Truthy(env.AICC_STYLE) THEN env.AICC_STYLE.value
                   ELSE "standard"),
   plugins |-> Given(<<>>),
   verbose |-> Given(env.AICC_VERBOSE = EnvSet("true"))]

\* envCfg
EnvCfg(env) ==
  [model |-> IF Truthy(env.AICC_MODEL) THEN Given(env.AICC_MODEL.value) ELSE NoText,
   style |-> IF Truthy(env.AICC_STYLE) THEN Given(env.AICC_STYLE.value) ELSE NoText,
   plugins |-> NoList,
   verbose |-> IF Truthy(env.AICC_VERBOSE)
               THEN Given(env.AICC_VERBOSE.value = "true") ELSE NoFlag]

\* {}
EmptyLayer == [model |-> NoText, style |-> NoText, plugins |-> NoList, verbose |-> NoFlag]

\* the contents of the global file; an unreadable file leaves globalCfg empty
GlobalFiles ==
  [model : {NoText, Given("global/model-x")},
   style : {NoText, Given("gitmoji")},
   plugins : {NoList, Given(<<"./global-plugin.js">>)},
   verbose : {NoFlag, Given(TRUE)}]

\* what cosmiconfig finds for the project
ProjectFiles ==
  [model : {NoText, Given("project/model-y")},
   style : {NoText, Given("standard")},
   plugins : {NoList, Given(<<"./missing.js", "./project-plugin.js">>)},
   verbose : {NoFlag}]

\* existsSync(resolve(cwd, p))
ExistingPaths == {"./global-plugin.js", "./project-plugin.js"}

\* { ...under, ...over }
Spread(under, over) ==
  [f \in ConfigFields |-> IF over[f].has THEN over[f] ELSE under[f]]

\* { ...DEFAULTS, ...projectCfg, ...globalCfg, ...envCfg }: the global file
\* over the project file
MergedGlobalLast(defaults, globalCfg, projectCfg, envCfg) ==
  Spread(Spread(Spread(defaults, projectCfg), globalCfg), envCfg)

\* { ...DEFAULTS, ...globalCfg, ...projectCfg, ...envCfg }
Merged(defaults, globalCfg, projectCfg, envCfg) ==
  Spread(Spread(Spread(defaults, globalCfg), projectCfg), envCfg)

RECURSIVE Filter(_)
\* (merged.plugins || []).filter(p => existsSync(resolve(cwd, p)))
Filter(paths) ==
  IF paths = <<>> THEN <<>>
  ELSE (IF Head(paths) \in ExistingPaths THEN <<Head(paths)>> ELSE <<>>)
         \o Filter(Tail(paths))

\* the value of each field of the returned config
ConfigOf(merged) ==
  [f \in ConfigFields |->
     IF f = "plugins" THEN Filter(merged[f].value) ELSE merged[f].value]

\* _sources
SourcesOf(globalCfg, projectCfg, envCfg) ==
  [f \in ConfigFields |->
     IF envCfg[f].has THEN "env"
     ELSE IF projectCfg[f].has THEN "project"
     ELSE IF globalCfg[f].has THEN "global"
     ELSE "default"]

loadConfigDetailed(globalCfg, projectCfg, env) ==
  [config |-> ConfigOf(Merged(DEFAULTS(env), globalCfg, projectCfg, EnvCfg(env))),
   sources |-> SourcesOf(globalCfg, projectCfg, EnvCfg(env)),
   raw |-> [defaults |-> DEFAULTS(env), global |-> globalCfg,
            project |-> projectCfg, env |-> EnvCfg(env)]]

ConfigInit ==
  /\ WorkflowInit
  /\ config.style = "standard"
  /\ fmt = FmtIdle
  /\ \E globalCfg \in GlobalFiles \cup {EmptyLayer}, projectCfg \in ProjectFiles,
        env \in Environments :
       call = [fn |-> "loadConfigDetailed", step |-> "start", global |-> globalCfg,
               project |-> projectCfg, env |-> env, result |-> <<>>]

\* loadConfigDetailed(cwd)
LoadConfigDetailed ==
  /\ call.fn = "loadConfigDetailed"
  /\ call.step = "start"
  /\ call' = [call EXCEPT !.step = "returned",
                          !.result = loadConfigDetailed(call.global, call.project,
                                                        call.env)]
  /\ UNCHANGED <<wfVars, fmt>>

ConfigNext == LoadConfigDetailed

SpecConfig == ConfigInit /\ [][ConfigNext]_vars

\* the layers from the lowest to the highest
LayerNames == <<"default", "global", "project", "env">>

\* the layer of that name of the call
LayerOf(c, name) ==
  CASE name = "default" -> DEFAULTS(c.env)
    [] name = "global" -> c.global
    [] name = "project" -> c.project
    [] name = "env" -> EnvCfg(c.env)

\* the place of the highest layer that defines the field
HighestDefining(c, f) ==
  CHOOSE k \in 1..4 :
    /\ LayerOf(c, LayerNames[k])[f].has
    /\ \A j \in (k + 1)..4 : ~LayerOf(c, LayerNames[j])[f].has

\* C23: for every configuration field, loadConfigDetailed returns the value
\* given by the highest-precedence layer that defines the field, in the order
\* defaults < global file < project file < environment, and _sources for the
\* field names exactly that layer.
C23_HighestLayerWins ==
  (call.fn = "loadConfigDetailed" /\ call.step = "returned") =>
    \A f \in ConfigFields :
      /\ call.result.config[f]
           = LayerOf(call, LayerNames[HighestDefining(call, f)])[f].value
      /\ call.result.sources[f] = LayerNames[HighestDefining(call, f)]

\* the paths of the list that exist, in the order of the list
Existing(paths) ==
  [k \in 1..Cardinality({i \in 1..Len(paths) : paths[i] \in ExistingPaths}) |->
     paths[CHOOSE i \in 1..Len(paths) :
             /\ paths[i] \in ExistingPaths
             /\ Cardinality({j \in 1..i : paths[j] \in ExistingPaths}) = k]]

\* C23, amended: for every configuration field, _sources names the
\* highest-precedence layer that defines the field, in the order defaults <
\* global file < project file < environment; the value returned is the value
\* that layer gives, except for plugins, where it is that layer's list
\* without the paths that do not exist.
C23_HighestLayerWinsPluginsFiltered ==
  (call.fn = "loadConfigDetailed" /\ call.step = "returned") =>
    \A f \in ConfigFields :
      /\ call.result.sources[f] = LayerNames[HighestDefining(call, f)]
      /\ f # "plugins" =>
           call.result.config[f]
             = LayerOf(call, LayerNames[HighestDefining(call, f)])[f].value
      /\ f = "plugins" =>
           call.result.config[f]
             = Existing(LayerOf(call, LayerNames[HighestDefining(call, f)])[f].value)

\* every layer decides a field: the environment the model, the project file
\* the plugins (one of them missing), the global file the style, the
\* defaults the verbosity
C23_EachLayerDecidesAField ==
  /\ call.fn = "loadConfigDetailed"
  /\ call.step = "returned"
  /\ call.global.model.has /\ call.project.model.has /\ call.global.plugins.has
  /\ call.result.sources
       = [model |-> "env", plugins |-> "project", style |-> "global",
          verbose |-> "default"]
  /\ call.result.config
       = [model |-> "env/model-z", plugins |-> <<"./project-plugin.js">>,
          style |-> "gitmoji", verbose |-> FALSE]

(***************************************************************************)
(* workflow/reword.ts: runReword.  The repository is the first-parent log  *)
(* of HEAD, oldest commit first, and one commit of another branch.         *)
(***************************************************************************)

OldTitle == <<"o", "l", "d">>

\* a commit: its hash, its message, the number of its parents
Commit(id, parents) == [id |-> <<id>>, message |-> OldTitle, parents |-> parents]

\* three commits, the second one a merge or not
Logs ==
  {<<Commit("c1", 0), Commit("c2", p), Commit("c3", 1)>> : p \in {1, 2}}
    \cup {<<Commit("c1", 0)>>}

\* a commit that HEAD does not descend from
OtherBranch == Commit("x1", 1)

\* what the user names: HEAD, a hash of the log, of another branch, of nothing
Hashes == {<<"HEAD">>, <<"c1">>, <<"c2">>, <<"c3">>, <<"x1">>, <<"nope">>}

\* git rev-parse
Revparse(log, hash) == IF hash = <<"HEAD">> THEN log[Len(log)].id ELSE hash

\* the place of the commit in the log, 0 when it is not there
PlaceOf(log, id) ==
  IF \E k \in 1..Len(log) : log[k].id = id
  THEN CHOOSE k \in 1..Len(log) : log[k].id = id
  ELSE 0

\* getCommitMessage(hash): the commit, or null
Found(log, hash) ==
  \/ PlaceOf(log, Revparse(log, hash)) > 0
  \/ hash = OtherBranch.id

CommitAt(log, hash) ==
  IF hash = OtherBranch.id THEN OtherBranch
  ELSE log[PlaceOf(log, Revparse(log, hash))]

\* git rev-list --merges resolved..HEAD
MergesAfter(log, k) == \E j \in (k + 1)..Len(log) : log[j].parents > 1

\* git commit --amend: HEAD is replaced by a commit with the message
Amended(log, message) ==
  [log EXCEPT ![Len(log)] =
     [id |-> Append(log[Len(log)].id, "amended"), message |-> message,
      parents |-> log[Len(log)].parents]]

\* git commit-tree and git rebase --onto: the commit at k is replaced by one
\* with the message, the commits after it by copies
Rewritten(log, k, message) ==
  [j \in 1..Len(log) |->
     IF j < k THEN log[j]
     ELSE [id |-> Append(log[j].id, "rewritten"),
           message |-> IF j = k THEN message ELSE log[j].message,
           parents |-> log[j].parents]]

RewordInit ==
  /\ WorkflowInit
  /\ fmt = FmtIdle
  /\ \E log \in Logs, hash \in Hashes :
       call = [fn |-> "runReword", step |-> "start", before |-> log, log |-> log,
               hash |-> hash, candidate |-> <<>>, ok |-> FALSE, shown |-> "nothing"]

Shown(text) == [call EXCEPT !.step = "done", !.shown = text]

\* getCommitMessage and the refusal of merge commits
RewordStart ==
  /\ call.fn = "runReword"
  /\ call.step = "start"
  /\ call' = IF ~Found(call.log, call.hash) THEN Shown("Commit not found")
             ELSE IF CommitAt(call.log, call.hash).parents > 1
             THEN Shown("Refusing to reword a merge commit")
             ELSE [call EXCEPT !.step = "model"]
  /\ UNCHANGED <<wfVars, fmt>>

\* provider.chat, extractJSON and formatCommitTitle
RewordModel ==
  /\ call.fn = "runReword"
  /\ call.step = "model"
  /\ \E chat \in Exchanges :
       call' = IF chat.raw = ProviderError \/ Threw(chat.parsed)
               THEN Shown("Reword failed")
               ELSE [call EXCEPT
                       !.step = "confirm",
                       !.candidate =
                         [title |-> formatCommitTitle(
                                      chat.parsed.commits[1].title,
                                      config.style \in {"gitmoji", "gitmoji-pure"},
                                      config.style),
                          body |-> chat.parsed.commits[1].body]]
  /\ UNCHANGED <<wfVars, fmt>>

\* headHash === resolvedHash || headHash.startsWith(resolvedHash)
IsHead(log, hash) == Revparse(log, hash) = log[Len(log)].id

\* the branch for a commit that is not HEAD
RewriteOlder(c, rebased) ==
  IF PlaceOf(c.log, Revparse(c.log, c.hash)) = 0
  THEN [c EXCEPT !.step = "done", !.ok = TRUE,
                 !.shown = "Selected commit is not an ancestor of HEAD"]
  ELSE IF MergesAfter(c.log, PlaceOf(c.log, Revparse(c.log, c.hash)))
  THEN [c EXCEPT !.step = "done", !.ok = TRUE, !.shown = "Apply manually"]
  ELSE IF rebased
  THEN [c EXCEPT !.step = "done", !.ok = TRUE, !.shown = "Updated commit",
                 !.log = Rewritten(c.log, PlaceOf(c.log, Revparse(c.log, c.hash)),
                                   Message(c.candidate.title, c.candidate.body))]
  ELSE [c EXCEPT !.step = "done", !.ok = TRUE, !.shown = "Automatic rewrite failed"]

\* the prompt, and the amend or the rewrite that follows a Yes
RewordConfirm ==
  /\ call.fn = "runReword"
  /\ call.step = "confirm"
  /\ \E ok \in BOOLEAN, gitWorks \in BOOLEAN :
       call' = IF ~ok THEN Shown("Aborted")
               ELSE IF IsHead(call.log, call.hash)
               THEN IF gitWorks
                    THEN [call EXCEPT
                            !.step = "done", !.ok = TRUE, !.shown = "Amended",
                            !.log = Amended(call.log,
                                            Message(call.candidate.title,
                                                    call.candidate.body))]
                    ELSE [call EXCEPT !.step = "done", !.ok = TRUE,
                                      !.shown = "Failed to amend HEAD"]
               ELSE RewriteOlder(call, gitWorks)
  /\ UNCHANGED <<wfVars, fmt>>

RewordNext == RewordStart \/ RewordModel \/ RewordConfirm

SpecReword == RewordInit /\ [][RewordNext]_vars

\* C24: reword amends the commit when the given hash is HEAD, after the user
\* has confirmed; for any other hash it only shows rebase instructions and
\* leaves the commit history unchanged.
C24_OnlyHeadIsRewritten ==
  (call.fn = "runReword" /\ call.step = "done") =>
    /\ (call.ok /\ IsHead(call.before, call.hash) /\ call.shown = "Amended") =>
         /\ Len(call.log) = Len(call.before)
         /\ call.log[Len(call.log)].message
              = Message(call.candidate.title, call.candidate.body)
         /\ \A k \in 1..(Len(call.log) - 1) : call.log[k] = call.before[k]
    /\ ~call.ok => call.log = call.before
    /\ ~IsHead(call.before, call.hash) =>
         /\ call.log = call.before
         /\ call.shown \notin {"Amended", "Updated commit"}

\* the line the loop of parseDiffFromRaw is about to read
NextLine == call.raw[call.i + 1]

\* the loop reads a line that starts with @@ while no file is open, or one
\* that is no hunk header
SkipsHeader ==
  /\ call.fn = "parseDiffFromRaw"
  /\ call.step = "lines"
  /\ call.i < Len(call.raw)
  /\ call'.fn = "parseDiffFromRaw"
  /\ StartsWith(NextLine, <<"@@">>)
  /\ call.files = <<>> \/ ~HUNK_HEADER_RE(NextLine).ok

\* C25: parseDiffFromRaw returns a result for every input text and never
\* raises: empty or whitespace-only input yields the empty sequence, and a
\* line starting with @@ that precedes any file marker or fails the grammar
\* of hunk headers creates no hunk and changes no file, hunk or counter,
\* while the lines after it are still scanned.
C25_BadHeadersAreSkipped ==
  /\ [](call.fn = "parseDiffFromRaw" =>
          /\ call.step \in {"start", "lines", "returned"}
          /\ call.step = "lines" => call.i <= Len(call.raw)
          /\ (call.step = "returned" /\ IsBlank(call.raw)) => call.files = <<>>
          /\ (call.step = "returned" /\ ~IsBlank(call.raw)) => call.i = Len(call.raw))
  /\ [][SkipsHeader =>
          /\ call'.files = call.files
          /\ call'.i = call.i + 1
          /\ call'.step = "lines"]_vars

\* a malformed header between a hunk header and an added line: the added
\* line is still counted, in the hunk opened before
C25_LineAfterBadHeaderCounted ==
  /\ call.fn = "parseDiffFromRaw"
  /\ call.step = "returned"
  /\ call.raw = <<FileLine(PathX), HeaderNew, HeaderBad, AddedLine>>
  /\ Len(call.files) = 1
  /\ Len(call.files[1].hunks) = 1
  /\ call.files[1].hunks[1].lines = <<AddedLine>>
  /\ call.files[1].additions = 1

(***************************************************************************)
(* The steps of runGenerate and runSplit between the parsed plan and the   *)
(* commits, one step for each await.  events is what has happened so far.  *)
(***************************************************************************)

\* what a plugin's transformCandidates returns for a list: nothing defined,
\* the scores raised, the first candidate alone, the titles rewritten
Transforms == {"none", "rescore", "keep first", "retitle"}

ScoreStep == 5

ApplyTransform(kind, cs) ==
  CASE kind = "rescore" ->
         [k \in 1..Len(cs) |-> [cs[k] EXCEPT !.score = Min(ScoreMax, @ + ScoreStep)]]
    [] kind = "keep first" -> SubSeq(cs, 1, 1)
    [] kind = "retitle" -> [k \in 1..Len(cs) |-> [cs[k] EXCEPT !.title = TitleFix]]
    [] OTHER -> cs

\* a plugin of the pipeline: its transform, and whether its validateCandidate
\* reports an error
PipelinePlugins == [transform : Transforms, rejects : BOOLEAN]

\* the most plugins of a run of the pipeline
MaxPipelinePlugins == 2

PipelinePluginLists == UNION {[1..k -> PipelinePlugins] : k \in 0..MaxPipelinePlugins}

RECURSIVE PluginErrorsOf(_)
\* runValidations(candidate, plugins, ctx)
PluginErrorsOf(plugins) ==
  IF plugins = <<>> THEN <<>>
  ELSE (IF Head(plugins).rejects THEN <<"plugin: rejected">> ELSE <<>>)
         \o PluginErrorsOf(Tail(plugins))

Event(ev, at, given, title) == [ev |-> ev, at |-> at, given |-> given, title |-> title]

PipelineInit ==
  /\ WorkflowInit
  /\ fmt = FmtIdle
  /\ \E run \in {"generate", "split"}, p \in Plans, plugins \in PipelinePluginLists :
       call = [fn |-> run, step |-> "transform", plan |-> p, plugins |-> plugins,
               i |-> 0, current |-> p.commits, transformed |-> <<>>,
               candidates |-> <<>>, k |-> 0, events |-> <<>>]

\* the list every plugin is handed: the commits of the plan
TransformInputFromPlan(c) == c.plan.commits

\* the list the next plugin is handed: current
TransformInput(c) == c.current

\* applyTransforms: one turn of the loop
TransformCandidates ==
  /\ call.fn \in {"generate", "split"}
  /\ call.step = "transform"
  /\ call.i < Len(call.plugins)
  /\ call' =
       IF call.plugins[call.i + 1].transform = "none"
       THEN [call EXCEPT !.i = @ + 1]
       ELSE [call EXCEPT
               !.i = @ + 1,
               !.current = ApplyTransform(call.plugins[call.i + 1].transform,
                                          TransformInput(call)),
               !.events = Append(@, Event("transform", call.i + 1,
                                          TransformInput(call), <<>>))]
  /\ UNCHANGED <<wfVars, fmt>>

\* the options runGenerate and runSplit format with
AllowGitmoji(run) ==
  IF run = "generate" THEN config.style \in {"gitmoji", "gitmoji-pure"}
  ELSE config.gitmoji

FormatMode(run) ==
  IF run = "generate" THEN config.style
  ELSE IF config.gitmojiMode \in Modes THEN config.gitmojiMode ELSE "standard"

\* candidates = candidates.map(c => ({ ...c, title: formatCommitTitle(...) }))
FormatTitles ==
  /\ call.fn \in {"generate", "split"}
  /\ call.step = "transform"
  /\ call.i = Len(call.plugins)
  /\ call' =
       [call EXCEPT
          !.step = IF call.fn = "generate"
                   THEN (IF call.current = <<>> THEN "done" ELSE "validate")
                   ELSE "confirm",
          !.transformed = call.current,
          !.candidates = FormatAll(call.current, AllowGitmoji(call.fn),
                                   FormatMode(call.fn)),
          !.events = @ \o [k \in 1..Len(call.current) |->
                             Event("format", k, <<>>,
                                   formatCommitTitle(call.current[k].title,
                                                     AllowGitmoji(call.fn),
                                                     FormatMode(call.fn)))]]
  /\ UNCHANGED <<wfVars, fmt>>

\* runGenerate: runValidations and checkCandidate of the chosen candidate
ValidateChosen ==
  /\ call.fn = "generate"
  /\ call.step = "validate"
  /\ call' = [call EXCEPT
                !.step = "confirm",
                !.k = 1,
                !.events = Append(@, Event("validate", 1,
                                           PluginErrorsOf(call.plugins)
                                             \o checkCandidate(call.candidates[1]),
                                           call.candidates[1].title))]
  /\ UNCHANGED <<wfVars, fmt>>

\* the prompt of either command
ConfirmPipeline ==
  /\ call.fn \in {"generate", "split"}
  /\ call.step = "confirm"
  /\ \E ok \in BOOLEAN :
       call' = IF ~ok THEN [call EXCEPT !.step = "done"]
               ELSE IF call.fn = "generate"
               THEN [call EXCEPT
                       !.step = "done",
                       !.events = Append(@, Event("commit", 1, <<>>,
                                                  call.candidates[1].title))]
               ELSE [call EXCEPT !.step = "loop", !.k = 0]
  /\ UNCHANGED <<wfVars, fmt>>

\* what a turn of the loop of runSplit adds for candidate k: its validation,
\* and its commit when nothing was reported
SplitEvents(c, k, errs) ==
  <<Event("validate", k, errs, c.candidates[k].title)>>
    \o (IF errs = <<>>
        THEN <<Event("commit", k, <<>>, c.candidates[k].title)>> ELSE <<>>)

\* runSplit: one turn of the loop over the candidates
SplitCandidate ==
  /\ call.fn = "split"
  /\ call.step = "loop"
  /\ call' =
       IF call.k = Len(call.candidates) THEN [call EXCEPT !.step = "done"]
       ELSE [call EXCEPT
               !.k = @ + 1,
               !.events = @ \o SplitEvents(call, call.k + 1,
                                           PluginErrorsOf(call.plugins)
                                             \o checkCandidate(
                                                  call.candidates[call.k + 1]))]
  /\ UNCHANGED <<wfVars, fmt>>

PipelineNext ==
  \/ TransformCandidates
  \/ FormatTitles
  \/ ValidateChosen
  \/ ConfirmPipeline
  \/ SplitCandidate

SpecPipeline == PipelineInit /\ [][PipelineNext]_vars

\* the places of the events of a kind
EventsOf(ev) == {n \in 1..Len(call.events) : call.events[n].ev = ev}

\* the plugins that define transformCandidates, up to place i
Transformers(i) == {j \in 1..i : call.plugins[j].transform # "none"}

\* the list the transform at event n was given: the commits of the plan for
\* the first, the result of the one before for the others
ThreadedInput(n) ==
  IF n = 1 THEN call.plan.commits
  ELSE ApplyTransform(call.plugins[call.events[n - 1].at].transform,
                      call.events[n - 1].given)

\* C26: in every generate and split run the plugin transforms are applied
\* once to the whole candidate list, in registration order and each on the
\* result of the one before, before any title is formatted; then every
\* candidate's title is replaced by its formatCommitTitle result; a candidate
\* is validated only after its title was formatted, and a commit is created
\* only after the validation of its candidate, with the formatted title.
C26_PipelineOrder ==
  call.fn \in {"generate", "split"} =>
    /\ \A n \in EventsOf("transform") :
         /\ \A m \in 1..n : call.events[m].ev = "transform"
         /\ \A m \in 1..(n - 1) : call.events[m].at < call.events[n].at
         /\ call.events[n].given = ThreadedInput(n)
    /\ {call.events[n].at : n \in EventsOf("transform")} = Transformers(call.i)
    /\ Cardinality(EventsOf("transform")) = Cardinality(Transformers(call.i))
    /\ call.step # "transform" =>
         /\ Cardinality(EventsOf("format")) = Len(call.transformed)
         /\ Len(call.candidates) = Len(call.transformed)
         /\ \A k \in 1..Len(call.candidates) :
              /\ \E n \in EventsOf("format") : call.events[n].at = k
              /\ call.candidates[k] =
                   [call.transformed[k] EXCEPT
                      !.title = formatCommitTitle(call.transformed[k].title,
                                                  AllowGitmoji(call.fn),
                                                  FormatMode(call.fn))]
    /\ \A n \in EventsOf("validate") :
         /\ \E m \in 1..(n - 1) :
              /\ call.events[m].ev = "format"
              /\ call.events[m].at = call.events[n].at
              /\ call.events[m].title = call.events[n].title
         /\ \A m \in EventsOf("format") : m < n
    /\ \A n \in EventsOf("commit") :
         /\ \E m \in 1..(n - 1) :
              /\ call.events[m].ev = "validate"
              /\ call.events[m].at = call.events[n].at
         /\ call.events[n].title = call.candidates[call.events[n].at].title
         /\ \A m \in EventsOf("commit") : m # n => call.events[m].at # call.events[n].at

\* a split run with two plugins that both transform: the second was given
\* the result of the first, both candidates were formatted, and the second
\* was committed after its own validation
C26_SplitRunWithTwoTransforms ==
  /\ call.fn = "split"
  /\ call.step = "done"
  /\ Len(call.plugins) = 2
  /\ call.plugins[1].transform = "retitle"
  /\ call.plugins[2].transform = "rescore"
  /\ Len(call.candidates) = 2
  /\ call.events[2].given # call.plan.commits
  /\ call.candidates[2].title # call.plan.commits[2].title
  /\ \E n \in EventsOf("commit") : call.events[n].at = 2

(***************************************************************************)
(* provider.ts: one run of a command that calls OpenCodeProvider.chat.     *)
(* The subprocess writes its stdout in chunks; data events, the end of the *)
(* process, the kill of tryEager and the timeout of execa come in any      *)
(* order the runtime allows.                                               *)
(***************************************************************************)

\* parseInt(process.env.AICC_MODEL_TIMEOUT_MS || '120000', 10)
DefaultTimeoutMs == 120000

\* a value AICC_MODEL_TIMEOUT_MS is set to, as parseInt reads it
ShortTimeoutMs == 5000

\* parseInt(text, 10) of the decimal numerals met here
ParseInt(text) == IF text = "5000" THEN ShortTimeoutMs ELSE DefaultTimeoutMs

TimeoutMsOf(env) ==
  ParseInt(IF env.timeout.set /\ env.timeout.value # "" THEN env.timeout.value
           ELSE "120000")

\* AICC_DEBUG_PROVIDER = mock, AICC_EAGER_PARSE # false, AICC_MODEL_TIMEOUT_MS
ChatEnvs ==
  {[mock |-> FALSE, eager |-> e, timeout |-> t] :
     e \in BOOLEAN, t \in {EnvUnset, EnvSet("5000")}}
    \cup {[mock |-> TRUE, eager |-> TRUE, timeout |-> EnvUnset]}

MockTitle ==
  <<"c", "h", "o", "r", "e", ":", " ", "m", "o", "c", "k", " ", "c", "o", "m",
    "m", "i", "t", " ", "f", "r", "o", "m", " ", "p", "r", "o", "v", "i", "d",
    "e", "r">>

MockScore == 80

\* the JSON.stringify(...) of mock mode
MockText ==
  <<LB, KeyCommits, LSQ, LB,
    Fields([title |-> JStr(MockTitle), body |-> JStr(""), score |-> JNum(MockScore),
            files |-> {}]),
    RB, RSQ, COMMA, KeyMeta, LB, MetaFields, RB, RB>>

\* the plans the subprocess writes: one commit each, for all files or none
ChatPlans == {[commits |-> <<c>>] : c \in {m \in ModelCandidates : m.title # TitleFeat}}

\* text before the plan: none, a line of prose, an empty object on a line
ChatPrefaces == {<<>>, <<Prose, NL>>, <<LB, RB, NL>>}

\* text after the plan: none, the final newline, a line of prose
ChatTrailings == {<<>>, <<NL>>, <<NL, Prose>>}

Output(text, p, holds) == [text |-> text, plan |-> p, holds |-> holds]

\* the complete stdout of the subprocess: a plan with text around it, a plan
\* over several lines, two plans on two lines, and texts that hold no plan
Outputs ==
  {Output(pre0 \o Compact(WireOfPlan(p)) \o post, p, TRUE) :
     pre0 \in ChatPrefaces, p \in ChatPlans, post \in ChatTrailings}
    \cup {Output(Pretty(WireOfPlan(p)) \o <<NL>>, p, TRUE) : p \in ChatPlans}
    \cup {Output(Compact(WireOfPlan(p)) \o <<NL>> \o Compact(WireOfPlan(q)), p, TRUE) :
            p \in ChatPlans, q \in ChatPlans}
    \cup {Output(t, NoPlan, FALSE) : t \in {<<>>, <<Prose>>, <<LB, KeyCommits, LSQ, LB>>}}

\* what execa rejects with when the process fails: stderr and message
Failures ==
  {[stderr |-> "", message |-> "Command failed with exit code 1"],
   [stderr |-> "model not found", message |-> "Command failed with exit code 1"],
   [stderr |-> "", message |-> ""]}

ErrorOfChat(text, ms) == [text |-> text, ms |-> ms]

NoError == ErrorOfChat("", 0)

\* new Error('Model call timed out after ${timeoutMs}ms (elapsed=...)')
TimeoutError(ms) == ErrorOfChat("Model call timed out after", ms)

\* new Error(e.stderr || e.message || 'opencode invocation failed')
InvocationError(e) ==
  ErrorOfChat(IF e.stderr # "" THEN e.stderr
              ELSE IF e.message # "" THEN e.message
              ELSE "opencode invocation failed", 0)

Pending == [kind |-> "pending", text |-> <<>>, error |-> NoError]

Resolved(text) == [kind |-> "resolved", text |-> text, error |-> NoError]

Rejected(error) == [kind |-> "rejected", text |-> <<>>, error |-> error]

\* the commands that call chat
ChatCommands == {"generate", "split", "refine"}

\* the most calls of chat the model follows in one run
MaxChats == 2

ChatInit ==
  /\ WorkflowInit
  /\ fmt = FmtIdle
  /\ config.style = "standard"
  /\ \E command \in ChatCommands, env \in ChatEnvs, out \in Outputs :
       call = [fn |-> "chat", cmd |-> command, env |-> env,
               out |-> IF env.mock THEN Output(<<>>, NoPlan, FALSE) ELSE out,
               step |-> "idle", proc |-> "none", sent |-> 0, acc |-> <<>>,
               resolved |-> FALSE, outcome |-> Pending, cause |-> "none",
               settles |-> 0, spawns |-> 0, kills |-> 0, chats |-> 0,
               report |-> NoError]

\* provider.chat(messages, ...): up to the return in mock mode, or to the
\* end of the executor of the promise
ChatStart ==
  /\ call.fn = "chat"
  /\ call.step = "idle"
  /\ call.chats < MaxChats
  /\ call' =
       IF call.env.mock
       THEN [call EXCEPT !.step = "settled", !.chats = @ + 1,
                         !.outcome = Resolved(MockText), !.cause = "mock",
                         !.settles = @ + 1]
       ELSE [call EXCEPT !.step = "awaiting", !.chats = @ + 1,
                         !.proc = "running", !.spawns = @ + 1,
                         !.sent = 0, !.acc = <<>>, !.resolved = FALSE,
                         !.outcome = Pending, !.cause = "none"]
  /\ UNCHANGED <<wfVars, fmt>>

HasBraces(acc) ==
  /\ \E i \in 1..Len(acc) : acc[i] = LB
  /\ \E j \in 1..Len(acc) : acc[j] = RB

FirstBrace(acc) == CHOOSE i \in 1..Len(acc) : acc[i] = LB /\ \A k \in 1..(i - 1) : acc[k] # LB

LastBrace(acc) == Last({j \in 1..Len(acc) : acc[j] = RB})

\* acc.slice(first, last + 1).trim(), <<>> when the test of tryEager fails
EagerCandidate(acc) ==
  IF HasBraces(acc) /\ LastBrace(acc) > FirstBrace(acc)
  THEN TrimText(SubSeq(acc, FirstBrace(acc), LastBrace(acc)))
  ELSE <<>>

\* tryEager finds an object that JSON.parse accepts
EagerFires(eager, acc) ==
  /\ eager
  /\ EagerCandidate(acc) # <<>>
  /\ JSONparse(EagerCandidate(acc)) # SyntaxError

\* finish(value)
finish(c, value, cause) ==
  IF c.resolved THEN c
  ELSE [c EXCEPT !.resolved = TRUE, !.outcome = Resolved(value),
                 !.cause = cause, !.settles = @ + 1, !.step = "settled"]

\* subprocess.kill('SIGTERM')
Kill(c) == [c EXCEPT !.proc = IF @ = "running" THEN "killed" ELSE @, !.kills = @ + 1]

\* tryEager(), acc being what the chunk made it
TryEager(c) ==
  IF EagerFires(c.env.eager, c.acc) THEN finish(Kill(c), EagerCandidate(c.acc), "eager")
  ELSE c

\* subprocess.stdout.on('data', ...): the next n pieces of the output
Data ==
  /\ call.fn = "chat"
  /\ call.proc \in {"running", "killed"}
  /\ \E n \in 1..(Len(call.out.text) - call.sent) :
       call' = TryEager([call EXCEPT
                           !.sent = @ + n,
                           !.acc = @ \o SubSeq(call.out.text, call.sent + 1,
                                               call.sent + n)])
  /\ UNCHANGED <<wfVars, fmt>>

\* stripFinalNewline of execa: stdout of the result
StripFinalNewline(text) ==
  IF text # <<>> /\ text[Len(text)] = NL THEN SubSeq(text, 1, Len(text) - 1) ELSE text

\* the process ends with status 0 after all its output was read:
\* .then(({ stdout }) => { if (!resolved) finish(stdout) })
ProcessExit ==
  /\ call.fn = "chat"
  /\ call.proc \in {"running", "killed"}
  /\ call.sent = Len(call.out.text)
  /\ call' = [finish(call, StripFinalNewline(call.out.text), "exit")
                EXCEPT !.proc = "gone"]
  /\ UNCHANGED <<wfVars, fmt>>

\* .catch(e => ...): nothing after an eager resolve, else the rejection
Catch(c, error, cause) ==
  IF c.resolved THEN c
  ELSE [c EXCEPT !.outcome = Rejected(error), !.cause = cause,
                 !.settles = @ + 1, !.step = "settled"]

\* execa ends the process after timeoutMs and rejects with timedOut
Timeout ==
  /\ call.fn = "chat"
  /\ call.proc \in {"running", "killed"}
  /\ call' = [Catch(call, TimeoutError(TimeoutMsOf(call.env)), "timeout")
                EXCEPT !.proc = "gone"]
  /\ UNCHANGED <<wfVars, fmt>>

\* the process fails, or ends by the signal of tryEager: execa rejects
Fail ==
  /\ call.fn = "chat"
  /\ call.proc \in {"running", "killed"}
  /\ \E e \in Failures :
       call' = [Catch(call, InvocationError(e), "failure") EXCEPT !.proc = "gone"]
  /\ UNCHANGED <<wfVars, fmt>>

\* the run after a rejection of chat: the message is printed and the run
\* is over
AfterRejectionRetrying(c) == [c EXCEPT !.step = "idle", !.report = c.outcome.error]

AfterRejection(c) == [c EXCEPT !.step = "ended", !.report = c.outcome.error]

\* the caller goes on after its await
CallerResumes ==
  /\ call.fn = "chat"
  /\ call.step = "settled"
  /\ call' = IF call.outcome.kind = "rejected" THEN AfterRejection(call)
             ELSE [call EXCEPT !.step = "parsing"]
  /\ UNCHANGED <<wfVars, fmt>>

ChatNext ==
  \/ ChatStart
  \/ Data
  \/ ProcessExit
  \/ Timeout
  \/ Fail
  \/ CallerResumes

SpecChat == ChatInit /\ [][ChatNext]_vars

\* C27: one call of chat starts the subprocess at most once; a timeout
\* rejects with the timeout error, for the configured time (120000 ms by
\* default), a failed invocation rejects with another error, and after
\* either the run makes no further call of chat.
C27_OneAttemptAndDistinctTimeout ==
  call.fn = "chat" =>
    /\ call.spawns <= call.chats
    /\ call.chats <= 1
    /\ call.cause = "timeout" =>
         /\ call.outcome = Rejected(TimeoutError(TimeoutMsOf(call.env)))
         /\ call.env.timeout = EnvUnset => call.outcome.error.ms = DefaultTimeoutMs
    /\ call.cause = "failure" =>
         /\ call.outcome.kind = "rejected"
         /\ \A ms \in {DefaultTimeoutMs, ShortTimeoutMs} :
              call.outcome.error # TimeoutError(ms)
              /\ call.outcome.error.text # TimeoutError(ms).text
    /\ call.step = "ended" =>
         /\ call.outcome.kind = "rejected"
         /\ call.report = call.outcome.error
         /\ call.chats = 1

\* a run whose only call of chat timed out after the default time, with
\* part of the output read, and which ended with that error reported
C27_TimedOutRunEnded ==
  /\ call.fn = "chat"
  /\ call.step = "ended"
  /\ call.cause = "timeout"
  /\ call.env.timeout = EnvUnset
  /\ call.report.ms = DefaultTimeoutMs
  /\ call.sent > 0
  /\ call.spawns = 1

\* what chat resolves with when the whole output comes as one chunk and the
\* process then ends
OneChunkResult(c) ==
  IF EagerFires(c.env.eager, c.out.text) THEN EagerCandidate(c.out.text)
  ELSE StripFinalNewline(c.out.text)

\* C28: chat settles once, whatever the chunks and the order of the events;
\* the text it resolves with gives extractJSON what the output in one chunk
\* gives it, and when the output holds a valid plan, that plan.
C28_ResultIndependentOfChunks ==
  call.fn = "chat" =>
    /\ call.settles <= 1
    /\ call.outcome.kind = "resolved" /\ ~call.env.mock =>
         /\ extractJSON(call.outcome.text) = extractJSON(OneChunkResult(call))
         /\ call.out.holds => extractJSON(call.outcome.text) = call.out.plan

\* C29: every title formatCommitTitle returns, whatever the title it was
\* given and whatever allowGitmoji and mode, passes the conventional-title
\* test of checkCandidate.
C29_FormattedTitleIsConventional ==
  fmt.step = "once" => CONVENTIONAL_RE(fmt.once)

(***************************************************************************)
(* title-format.ts: clusterHunks.  A path is the sequence of its           *)
(* components, the pieces file.split('/') gives; a Map is the sequence of  *)
(* its entries in the order of insertion.                                  *)
(***************************************************************************)

\* paths as git prints them: a file at the top, files in two directories,
\* one of them deeper
ClusterPaths ==
  {<<"a.ts">>, <<"src", "a.ts">>, <<"src", "b.ts">>, <<"lib", "c.ts">>,
   <<"src", "sub", "d.ts">>}

\* the numbers of hunks of a file of the input
HunkCounts == {0, 2, 4}

\* the most files of an input of clusterHunks
MaxClusterFiles == 3

\* the hunk n of a file as parseDiffFromRaw leaves it: file is the path of
\* its FileDiff, the hash stands for the header and lines it was made from
HunkOfFile(file, n) == [file |-> file, hash |-> [of |-> file, n |-> n]]

FileDiffOf(file, count) ==
  [file |-> file, hunks |-> [n \in 1..count |-> HunkOfFile(file, n)]]

ClusterInputs ==
  UNION {[1..k -> {FileDiffOf(file, count) : file \in ClusterPaths,
                                           count \in HunkCounts}] :
           k \in 0..MaxClusterFiles}

\* file.split('/')[0] || file, as a path
topLevelOfWholePath(file) == file

topLevel(file) == IF file[1] # "" THEN <<file[1]>> ELSE file

\* if (!map.has(key)) map.set(key, []); map.get(key).push(h)
PushTo(map, key, h) ==
  IF \E i \in 1..Len(map) : map[i].key = key
  THEN [i \in 1..Len(map) |->
          IF map[i].key = key THEN [map[i] EXCEPT !.hunks = Append(@, h)]
          ELSE map[i]]
  ELSE Append(map, [key |-> key, hunks |-> <<h>>])

RECURSIVE PushHunks(_, _, _)
\* for (const h of f.hunks) ... byDir.get(dir).push(h)
PushHunks(map, dir, hunks) ==
  IF hunks = <<>> THEN map
  ELSE PushHunks(PushTo(map, dir, Head(hunks)), dir, Tail(hunks))

RECURSIVE ByDir(_, _)
\* for (const f of files)
ByDir(map, files) ==
  IF files = <<>> THEN map
  ELSE ByDir(PushHunks(map, topLevel(Head(files).file), Head(files).hunks),
             Tail(files))

RECURSIVE PerFile(_, _)
\* for (const h of hunks) ... perFile.get(h.file).push(h)
PerFile(map, hunks) ==
  IF hunks = <<>> THEN map
  ELSE PerFile(PushTo(map, Head(hunks).file, Head(hunks)), Tail(hunks))

RECURSIVE Distinct(_)
\* [...new Set(list)]
Distinct(list) ==
  IF list = <<>> THEN <<>>
  ELSE <<Head(list)>> \o Distinct(SelectSeq(Tail(list), LAMBDA x : x # Head(list)))

HashesOf(hunks) == [k \in 1..Len(hunks) |-> hunks[k].hash]

FilesOfHunks(hunks) == [k \in 1..Len(hunks) |-> hunks[k].file]

\* if (hunks.length <= 5)
ClusterLimit == 5

ClusterId(prefix, name) == [prefix |-> prefix, name |-> name]

DirCluster(entry) ==
  [id |-> ClusterId("dir-", entry.key),
   files |-> Distinct(FilesOfHunks(entry.hunks)),
   hunkHashes |-> HashesOf(entry.hunks),
   rationale |-> "Changes grouped by directory"]

FileCluster(entry) ==
  [id |-> ClusterId("file-", entry.key),
   files |-> <<entry.key>>,
   hunkHashes |-> HashesOf(entry.hunks),
   rationale |-> "Large directory; grouped by file"]

FileClusters(perFile) == [k \in 1..Len(perFile) |-> FileCluster(perFile[k])]

\* the clusters pushed for one entry of byDir
ClustersOfEntry(entry) ==
  IF Len(entry.hunks) <= ClusterLimit THEN <<DirCluster(entry)>>
  ELSE FileClusters(PerFile(<<>>, entry.hunks))

RECURSIVE ClustersOf(_)
\* for (const [dir, hunks] of byDir.entries())
ClustersOf(byDir) ==
  IF byDir = <<>> THEN <<>>
  ELSE ClustersOfEntry(Head(byDir)) \o ClustersOf(Tail(byDir))

clusterHunks(files) == ClustersOf(ByDir(<<>>, files))

ClusterInit ==
  /\ WorkflowInit
  /\ config.style = "standard"
  /\ fmt = FmtIdle
  /\ \E files \in ClusterInputs :
       call = [fn |-> "clusterHunks", step |-> "start", files |-> files,
               clusters |-> <<>>, again |-> <<>>]

\* clusterHunks(files)
ClusterHunks ==
  /\ call.fn = "clusterHunks"
  /\ call.step = "start"
  /\ call' = [call EXCEPT !.step = "clustered", !.clusters = clusterHunks(call.files)]
  /\ UNCHANGED <<wfVars, fmt>>

\* a second call with the same files
ClusterAgain ==
  /\ call.fn = "clusterHunks"
  /\ call.step = "clustered"
  /\ call' = [call EXCEPT !.step = "twice", !.again = clusterHunks(call.files)]
  /\ UNCHANGED <<wfVars, fmt>>

ClusterNext ==
  \/ ClusterHunks
  \/ ClusterAgain

SpecCluster == ClusterInit /\ [][ClusterNext]_vars

\* the hunks of the input: <<place of the file, place of the hunk>>
InputHunks ==
  {p \in (1..Len(call.files)) \X (1..Last(HunkCounts)) :
     p[2] <= Len(call.files[p[1]].hunks)}

HashAt(p) == call.files[p[1]].hunks[p[2]].hash

\* the hunks of the files whose first path component is d
GroupOf(d) == {p \in InputHunks : call.files[p[1]].file[1] = d}

\* the hunks of the files of path f
HunksOfPath(f) == {p \in InputHunks : call.files[p[1]].file = f}

GroupNames == {call.files[p[1]].file[1] : p \in InputHunks}

\* the places of the clusters of an id
ClustersWith(id) == {c \in 1..Len(call.clusters) : call.clusters[c].id = id}

Occurrences(list, v) == Cardinality({k \in 1..Len(list) : list[k] = v})

\* the cluster holds the hashes of exactly the hunks of S, each as often as
\* S has it
HoldsHunks(cluster, S) ==
  /\ Len(cluster.hunkHashes) = Cardinality(S)
  /\ \A p \in S :
       Occurrences(cluster.hunkHashes, HashAt(p))
         = Cardinality({q \in S : HashAt(q) = HashAt(p)})

\* the cluster names the files of the hunks of S, each once
HoldsFiles(cluster, S) ==
  /\ {cluster.files[k] : k \in 1..Len(cluster.files)}
       = {call.files[p[1]].file : p \in S}
  /\ Len(cluster.files) = Cardinality({call.files[p[1]].file : p \in S})

\* the occurrences of a hash in all clusters
InClusters(v) ==
  Cardinality({ck \in (1..Len(call.clusters)) \X (1..Cardinality(InputHunks)) :
                 /\ ck[2] <= Len(call.clusters[ck[1]].hunkHashes)
                 /\ call.clusters[ck[1]].hunkHashes[ck[2]] = v})

\* C30: the clusters of clusterHunks partition the hunks of the input; the
\* hunks are grouped by the first component of the path of their file, a
\* group of at most 5 hunks is the one cluster dir-<name> with all its hunks
\* and files, a larger group is one cluster file-<path> for each of its
\* files; the ids differ pairwise, and a second call gives the same clusters.
C30_ClustersPartitionHunks ==
  (call.fn = "clusterHunks" /\ call.step # "start") =>
    /\ \A p \in InputHunks :
         InClusters(HashAt(p)) = Cardinality({q \in InputHunks : HashAt(q) = HashAt(p)})
    /\ \A c \in 1..Len(call.clusters) :
         /\ call.clusters[c].hunkHashes # <<>>
         /\ \A k \in 1..Len(call.clusters[c].hunkHashes) :
              \E p \in InputHunks : HashAt(p) = call.clusters[c].hunkHashes[k]
    /\ \A d \in GroupNames :
         IF Cardinality(GroupOf(d)) <= ClusterLimit
         THEN /\ Cardinality(ClustersWith(ClusterId("dir-", <<d>>))) = 1
              /\ \A c \in ClustersWith(ClusterId("dir-", <<d>>)) :
                   /\ HoldsHunks(call.clusters[c], GroupOf(d))
                   /\ HoldsFiles(call.clusters[c], GroupOf(d))
              /\ \A p \in GroupOf(d) :
                   ClustersWith(ClusterId("file-", call.files[p[1]].file)) = {}
         ELSE /\ ClustersWith(ClusterId("dir-", <<d>>)) = {}
              /\ \A p \in GroupOf(d) :
                   /\ Cardinality(ClustersWith(ClusterId("file-", call.files[p[1]].file))) = 1
                   /\ \A c \in ClustersWith(ClusterId("file-", call.files[p[1]].file)) :
                        /\ HoldsHunks(call.clusters[c], HunksOfPath(call.files[p[1]].file))
                        /\ call.clusters[c].files = <<call.files[p[1]].file>>
    /\ \A c \in 1..Len(call.clusters) :
         \/ /\ call.clusters[c].id.prefix = "dir-"
            /\ \E d \in GroupNames : call.clusters[c].id.name = <<d>>
         \/ /\ call.clusters[c].id.prefix = "file-"
            /\ \E p \in InputHunks : call.clusters[c].id.name = call.files[p[1]].file
    /\ \A c1, c2 \in 1..Len(call.clusters) :
         c1 # c2 => call.clusters[c1].id # call.clusters[c2].id
    /\ call.step = "twice" => call.again = call.clusters

\* two files of src with six hunks between them, a third file of lib with
\* two: a cluster for each file of src and one for the directory lib
C30_LargeAndSmallGroup ==
  /\ call.fn = "clusterHunks"
  /\ call.step = "twice"
  /\ Cardinality(GroupOf("src")) > ClusterLimit
  /\ Cardinality({call.files[p[1]].file : p \in GroupOf("src")}) = 2
  /\ GroupOf("lib") # {}
  /\ Len(call.clusters) = 3
  /\ ClustersWith(ClusterId("dir-", <<"lib">>)) # {}
  /\ ClustersWith(ClusterId("file-", <<"src", "b.ts">>)) # {}

====
